---- MODULE Spec2Model ----
(***************************************************************************)
(* Verification model of the content validation and normalization pipeline *)
(* of zazzle-optimizer-fresh.  Texts are TLA+ strings handled as sequences *)
(* of UTF-16 code units, exactly as JavaScript strings are; the JavaScript *)
(* built-ins the pipeline calls (trim, includes, split, substring,         *)
(* JSON.parse, zod's parse) are operators computed the way the built-ins   *)
(* compute them.                                                           *)
(*                                                                         *)
(* Character renaming.  The non-ASCII literals of the sources are written  *)
(* with ASCII stand-ins of the same number of UTF-16 code units; none of   *)
(* the stand-in characters occurs in any other text of the model:          *)
(*   socialContent.ts  U+201A U+00FA U+00AE        (3 units)  "~^_"        *)
(*   socialContent.ts  U+F8FF U+00FC U+00E5 U+00FC (4 units)  "|<*>"       *)
(*   socialContent.ts  U+F8FF U+00FC U+00EE U+00E7 (4 units)  "|<?>"       *)
(*   instagramContent.ts U+2728                    (1 unit)   "$"          *)
(*   instagramContent.ts U+1F31F                   (2 units)  "@&"         *)
(*   instagramContent.ts U+1F3A8                   (2 units)  "@%"         *)
(*   part_000          U+00E2 U+0153 U+00A8        (3 units)  "=+;"        *)
(*   part_000          U+00F0 U+0178 U+017D U+00A8 (4 units)  "=/+;"       *)
(***************************************************************************)
EXTENDS Integers, Sequences, FiniteSets, TLC

VARIABLES
    input,      \* the argument of the call: [kind, ...]
    pc,         \* "start" before the call, the name of the operation after it
    result,     \* what the call returned or threw
    logs,       \* logger.ts: the entries of Logger.logs, oldest first
    reports,    \* diagnostics.ts: the reports of DiagnosticSystem.reports, oldest first
    nextId,     \* the value the next uuidv4() call returns
    state,      \* SocialMediaSection: the component's state (useState);
                \* Logger: its debugMode flag
    inflight    \* SocialMediaSection: the handler calls suspended at an await

\* outside a SocialMediaSection there is no component state
NoState == [mounted |-> FALSE]

vars == <<input, pc, result, logs, reports, nextId, state, inflight>>

(***************************************************************************)
(* JavaScript string built-ins                                             *)
(***************************************************************************)
\* F(e) with e evaluated once, before F uses it
Strict(e, F(_)) == CHOOSE r \in {F(x) : x \in {e}} : TRUE

MinOf(S) == CHOOSE m \in S : \A n \in S : m <= n

MaxOf(S) == CHOOSE m \in S : \A n \in S : m >= n

\* s.charAt(i-1): the code unit at 1-based position i, '' outside the string
charAt(s, i) == IF 1 <= i /\ i <= Len(s) THEN SubSeq(s, i, i) ELSE ""

\* the characters String.prototype.trim and the regex class \s remove
WhiteSpace == {" ", "\n", "\t", "\r"}

\* s.includes(w)
includes(s, w) ==
    \E t \in {s}, x \in {w} :
        \E i \in 1..(Len(t) - Len(x) + 1) : SubSeq(t, i, i + Len(x) - 1) = x

\* s.startsWith(w)
startsWith(s, w) == Len(s) >= Len(w) /\ SubSeq(s, 1, Len(w)) = w

\* s.endsWith(w)
endsWith(s, w) == Len(s) >= Len(w) /\ SubSeq(s, Len(s) - Len(w) + 1, Len(s)) = w

\* s.trim()
trim(s) ==
    Strict(s, LAMBDA t :
        LET keep == {i \in 1..Len(t) : charAt(t, i) \notin WhiteSpace}
        IN  IF keep = {} THEN "" ELSE SubSeq(t, MinOf(keep), MaxOf(keep)))

\* s.substring(0, n)
substring(s, n) == IF n >= Len(s) THEN s ELSE SubSeq(s, 1, n)

UpperCase == "ABCDEFGHIJKLMNOPQRSTUVWXYZ"

LowerCase == "abcdefghijklmnopqrstuvwxyz"

lowerChar(c) ==
    IF \E i \in 1..26 : charAt(UpperCase, i) = c
    THEN charAt(LowerCase, CHOOSE i \in 1..26 : charAt(UpperCase, i) = c)
    ELSE c

\* s.toLowerCase()
RECURSIVE toLowerCase(_)
toLowerCase(s) ==
    Strict(s, LAMBDA t :
        IF Len(t) = 0 THEN ""
        ELSE IF Len(t) = 1 THEN lowerChar(t)
        ELSE LET h == Len(t) \div 2
             IN  toLowerCase(SubSeq(t, 1, h)) \o toLowerCase(SubSeq(t, h + 1, Len(t))))

\* s.split(sep) for a one-character separator: the pieces between separators
RECURSIVE splitFrom(_, _, _)
splitFrom(s, sep, from) ==
    LET at == {i \in from..Len(s) : charAt(s, i) = sep}
    IN  IF at = {} THEN <<SubSeq(s, from, Len(s))>>
        ELSE <<SubSeq(s, from, MinOf(at) - 1)>> \o splitFrom(s, sep, MinOf(at) + 1)

split(s, sep) == Strict(s, LAMBDA t : splitFrom(t, sep, 1))

\* s.split(/[,\s]+/) and s.split(/\s+/): the pieces between maximal runs of
\* separator characters; a run at either end leaves an empty piece there
RECURSIVE splitRunsFrom(_, _, _)
splitRunsFrom(s, seps, from) ==
    LET at == {i \in from..Len(s) : charAt(s, i) \in seps}
    IN  IF at = {} THEN <<SubSeq(s, from, Len(s))>>
        ELSE LET b == MinOf(at)
                 rest == {i \in b..Len(s) : charAt(s, i) \notin seps}
             IN  IF rest = {} THEN <<SubSeq(s, from, b - 1), "">>
                 ELSE <<SubSeq(s, from, b - 1)>> \o splitRunsFrom(s, seps, MinOf(rest))

splitRuns(s, seps) == Strict(s, LAMBDA t : splitRunsFrom(t, seps, 1))

\* xs.map(f) for f = trim, xs.filter(Boolean), xs.join(sep)
mapTrim(xs) == [i \in 1..Len(xs) |-> trim(xs[i])]

filterBoolean(xs) == SelectSeq(xs, LAMBDA x : x # "")

RECURSIVE join(_, _)
join(xs, sep) ==
    IF Len(xs) = 0 THEN ""
    ELSE IF Len(xs) = 1 THEN xs[1]
    ELSE xs[1] \o sep \o join(Tail(xs), sep)

\* n copies of the character c
RECURSIVE repeat(_, _)
repeat(c, n) ==
    IF n = 0 THEN ""
    ELSE LET h == repeat(c, n \div 2)
         IN  IF n % 2 = 0 THEN h \o h ELSE h \o h \o c

(***************************************************************************)
(* JSON.parse.  A parsed value is [t, v]: t is "str", "num", "bool",       *)
(* "null", "arr" (v a sequence of values) or "obj" (v a function from the  *)
(* keys to their values; a repeated key keeps its last value).             *)
(* The grammar is JSON's, without escape sequences, fractions, exponents   *)
(* and signs, which no text of the model contains.                         *)
(***************************************************************************)
Digits == {"0", "1", "2", "3", "4", "5", "6", "7", "8", "9"}

digitValue(c) == CHOOSE n \in 0..9 : charAt("0123456789", n + 1) = c

ParseFail == [ok |-> FALSE, val |-> [t |-> "null", v |-> "null"], next |-> 0]

ParseOk(val, next) == [ok |-> TRUE, val |-> val, next |-> next]

\* the first position at or after i that holds no JSON white space
RECURSIVE skipWs(_, _)
skipWs(s, i) == IF charAt(s, i) \in WhiteSpace THEN skipWs(s, i + 1) ELSE i

\* a string literal opening at position i; a raw control character is an error
parseString(s, i) ==
    LET close == {j \in (i + 1)..Len(s) : charAt(s, j) = "\""}
    IN  IF close = {} THEN ParseFail
        ELSE LET j == MinOf(close)
                 body == SubSeq(s, i + 1, j - 1)
             IN  IF \E c \in {"\n", "\t", "\r"} : includes(body, c) THEN ParseFail
                 ELSE ParseOk([t |-> "str", v |-> body], j + 1)

RECURSIVE numberValue(_)
numberValue(ds) ==
    IF Len(ds) = 0 THEN 0
    ELSE 10 * numberValue(SubSeq(ds, 1, Len(ds) - 1)) + digitValue(charAt(ds, Len(ds)))

\* a number opening at position i: "0" or a digit run without a leading zero
parseNumber(s, i) ==
    LET stop == {j \in i..Len(s) : charAt(s, j) \notin Digits}
        e == IF stop = {} THEN Len(s) + 1 ELSE MinOf(stop)
        ds == SubSeq(s, i, e - 1)
    IN  IF Len(ds) > 1 /\ charAt(ds, 1) = "0" THEN ParseOk([t |-> "num", v |-> 0], i + 1)
        ELSE ParseOk([t |-> "num", v |-> numberValue(ds)], e)

\* whether w stands in s at position i
startsWithAt(s, w, i) ==
    i + Len(w) - 1 <= Len(s) /\ SubSeq(s, i, i + Len(w) - 1) = w

parseLiteral(s, i) ==
    IF startsWithAt(s, "true", i) THEN ParseOk([t |-> "bool", v |-> TRUE], i + 4)
    ELSE IF startsWithAt(s, "false", i) THEN ParseOk([t |-> "bool", v |-> FALSE], i + 5)
    ELSE IF startsWithAt(s, "null", i) THEN ParseOk([t |-> "null", v |-> "null"], i + 4)
    ELSE ParseFail

RECURSIVE parseValue(_, _), parseElements(_, _, _), parseMembers(_, _, _), parseMember(_, _)
\* the elements of an array, the first at or after position i
parseElements(s, i, acc) ==
    Strict(<<parseValue(s, i), acc>>, LAMBDA a :
        LET e == a[1]
            j == skipWs(s, e.next)
        IN  IF ~e.ok THEN ParseFail
            ELSE IF charAt(s, j) = "," THEN parseElements(s, j + 1, Append(a[2], e.val))
            ELSE IF charAt(s, j) = "]"
            THEN ParseOk([t |-> "arr", v |-> Append(a[2], e.val)], j + 1)
            ELSE ParseFail)

\* the members of an object, the first key at or after position i
parseMember(s, i) ==
    LET k == skipWs(s, i)
        key == IF charAt(s, k) = "\"" THEN parseString(s, k) ELSE ParseFail
        c == skipWs(s, key.next)
        e == IF key.ok /\ charAt(s, c) = ":" THEN parseValue(s, c + 1) ELSE ParseFail
    IN  [key |-> key.val.v, e |-> e]

parseMembers(s, i, acc) ==
    Strict(<<parseMember(s, i), acc>>, LAMBDA a :
        LET key == a[1].key
            e == a[1].e
            j == skipWs(s, e.next)
            more == [x \in (DOMAIN a[2]) \cup {key} |-> IF x = key THEN e.val ELSE a[2][x]]
        IN  IF ~e.ok THEN ParseFail
            ELSE IF charAt(s, j) = "," THEN parseMembers(s, j + 1, more)
            ELSE IF charAt(s, j) = "}" THEN ParseOk([t |-> "obj", v |-> more], j + 1)
            ELSE ParseFail)

\* the value opening at the first non-blank position at or after i
parseValue(s, i) ==
    LET j == skipWs(s, i)
        c == charAt(s, j)
    IN  IF j > Len(s) THEN ParseFail
        ELSE IF c = "\"" THEN parseString(s, j)
        ELSE IF c \in Digits THEN parseNumber(s, j)
        ELSE IF c = "[" THEN
            IF charAt(s, skipWs(s, j + 1)) = "]"
            THEN ParseOk([t |-> "arr", v |-> <<>>], skipWs(s, j + 1) + 1)
            ELSE parseElements(s, j + 1, <<>>)
        ELSE IF c = "{" THEN
            IF charAt(s, skipWs(s, j + 1)) = "}"
            THEN ParseOk([t |-> "obj", v |-> <<>>], skipWs(s, j + 1) + 1)
            ELSE parseMembers(s, j + 1, <<>>)
        ELSE parseLiteral(s, j)

\* JSON.parse(s): [ok, val]; ok = FALSE stands for the SyntaxError it throws
JSONparse(s) ==
    Strict(s, LAMBDA t :
        Strict(parseValue(t, 1), LAMBDA r :
            IF r.ok /\ skipWs(t, r.next) > Len(t)
            THEN [ok |-> TRUE, val |-> r.val]
            ELSE [ok |-> FALSE, val |-> ParseFail.val]))

\* typeof data === 'object' && data !== null && !Array.isArray(data)
isPlainObject(val) == val.t = "obj"

(***************************************************************************)
(* JavaScript coercions of a parsed value                                  *)
(***************************************************************************)
RECURSIVE numberToString(_)
numberToString(n) ==
    IF n < 10 THEN charAt("0123456789", n + 1)
    ELSE numberToString(n \div 10) \o charAt("0123456789", (n % 10) + 1)

\* !val: the falsy values are '', 0, false and null
falsy(val) ==
    \/ val.t = "null"
    \/ val.t = "str" /\ val.v = ""
    \/ val.t = "num" /\ val.v = 0
    \/ val.t = "bool" /\ val.v = FALSE

\* String(val); an array joins String of its elements, null elements as ''
RECURSIVE String(_)
String(val) ==
    CASE val.t = "str" -> val.v
      [] val.t = "num" -> numberToString(val.v)
      [] val.t = "bool" -> IF val.v THEN "true" ELSE "false"
      [] val.t = "null" -> "null"
      [] val.t = "obj" -> "[object Object]"
      [] val.t = "arr" ->
            join([i \in 1..Len(val.v) |->
                    IF val.v[i].t = "null" THEN "" ELSE String(val.v[i])], ",")

\* obj.key, undefined when the key is absent
hasKey(obj, key) == key \in DOMAIN obj.v

(***************************************************************************)
(* socialContent.ts                                                        *)
(***************************************************************************)
Platforms == {"Instagram", "Facebook", "Pinterest"}

DEFAULT_CONTENT ==
    [Instagram |->
        [title |-> "Default Instagram Title",
         description |-> "This is a detailed and engaging Instagram caption optimized for SEO and designed to capture attention. It provides all necessary context and information.",
         tags |-> "optimized, instagram, social, seo, design, creative"],
     Facebook |->
        [title |-> "Default Facebook Title",
         description |-> "This is a detailed and engaging Facebook post optimized for SEO, designed to capture attention and provide all necessary information.",
         tags |-> "optimized, facebook, social, seo, design, creative"],
     Pinterest |->
        [title |-> "Default Pin Title",
         description |-> "This is a detailed and engaging Pinterest pin description optimized for SEO, providing all necessary information to enhance your ranking and attract your audience.",
         tags |-> "optimized, pinterest, seo, design, creative"]]

SC_MAX_TITLE_LENGTH == 40

SC_MIN_DESCRIPTION_LENGTH == 100

SC_MAX_DESCRIPTION_LENGTH == 1000

\* content.replace(/^[\s\S]*?({[\s\S]*})[\s\S]*$/, '$1'): the lazy prefix
\* stops at the first '{' that has a '}' after it, and the greedy group
\* runs to the last '}' of the text; without such a pair nothing is replaced
replaceBraceSpan(content) ==
    LET opens == {i \in 1..Len(content) : charAt(content, i) = "{"}
        closes == {i \in 1..Len(content) : charAt(content, i) = "}"}
    IN  IF opens # {} /\ closes # {} /\ MinOf(opens) < MaxOf(closes)
        THEN SubSeq(content, MinOf(opens), MaxOf(closes))
        ELSE content

NullContent == [isNull |-> TRUE, title |-> "", description |-> "", tags |-> ""]

\* parsed.title?.trim(): "blank" for a missing, null or blank value,
\* "throws" for a value without a trim method, "ok" for a non-blank string
trimmedField(parsed, key) ==
    IF ~hasKey(parsed, key) \/ parsed.v[key].t = "null" THEN "blank"
    ELSE IF parsed.v[key].t # "str" THEN "throws"
    ELSE IF trim(parsed.v[key].v) = "" THEN "blank"
    ELSE "ok"

\* lines 99-122 with the title cut at the maximum, before the ellipsis
formatFieldsCutAtMaximum(parsed, platform) ==
    LET title == trim(parsed.v["title"].v)
        description == trim(parsed.v["description"].v)
        tags == IF ~hasKey(parsed, "tags") \/ falsy(parsed.v["tags"]) THEN ""
                ELSE trim(String(parsed.v["tags"]))
    IN  [isNull |-> FALSE,
         title |-> IF Len(title) > SC_MAX_TITLE_LENGTH
                   THEN substring(title, SC_MAX_TITLE_LENGTH) \o "..."
                   ELSE title,
         description |->
                   IF Len(description) < SC_MIN_DESCRIPTION_LENGTH
                   THEN DEFAULT_CONTENT[platform].description
                   ELSE IF Len(description) > SC_MAX_DESCRIPTION_LENGTH
                   THEN substring(description, SC_MAX_DESCRIPTION_LENGTH - 3) \o "..."
                   ELSE description,
         tags |-> IF tags = "" THEN DEFAULT_CONTENT[platform].tags ELSE tags]

\* the title, description and tags of lines 99-122
formatFields(parsed, platform) ==
    LET title == trim(parsed.v["title"].v)
        description == trim(parsed.v["description"].v)
        tags == IF ~hasKey(parsed, "tags") \/ falsy(parsed.v["tags"]) THEN ""
                ELSE trim(String(parsed.v["tags"]))
    IN  [isNull |-> FALSE,
         title |-> IF Len(title) > SC_MAX_TITLE_LENGTH
                   THEN substring(title, SC_MAX_TITLE_LENGTH - 3) \o "..."
                   ELSE title,
         description |->
                   IF Len(description) < SC_MIN_DESCRIPTION_LENGTH
                   THEN DEFAULT_CONTENT[platform].description
                   ELSE IF Len(description) > SC_MAX_DESCRIPTION_LENGTH
                   THEN substring(description, SC_MAX_DESCRIPTION_LENGTH - 3) \o "..."
                   ELSE description,
         tags |-> IF tags = "" THEN DEFAULT_CONTENT[platform].tags ELSE tags]

\* validateContent(content, platform): the validated record, or null
SC_validateContent(content, platform) ==
    LET cleanedContent == trim(replaceBraceSpan(content))
        parsed == JSONparse(cleanedContent)
    IN  IF ~startsWith(cleanedContent, "{") \/ ~endsWith(cleanedContent, "}")
        THEN NullContent
        ELSE IF ~parsed.ok THEN NullContent
        ELSE IF trimmedField(parsed.val, "title") = "throws" THEN NullContent
        ELSE IF trimmedField(parsed.val, "title") = "blank" THEN NullContent
        ELSE IF trimmedField(parsed.val, "description") # "ok" THEN NullContent
        ELSE formatFields(parsed.val, platform)

SC_SPARKLES == "~^_"

SC_STAR == "|<*>"

\* the call to action of lines 146-150
SC_cta(platform) ==
    IF platform = "Pinterest" THEN "|<?> Save for inspiration!"
    ELSE IF platform = "Facebook" THEN "|<*> Check it out now!"
    ELSE "~^_ Shop now!"

\* the hashtags of lines 158-163
hashPrefix(tag) == IF startsWith(tag, "#") THEN tag ELSE "#" \o tag

formatHashtags(tags) ==
    LET kept == filterBoolean(mapTrim(split(tags, ",")))
    IN  join([i \in 1..Len(kept) |-> hashPrefix(kept[i])], " ")

\* formatContent(content, platform)
formatContent(content, platform) ==
    IF content.isNull
    THEN [description |-> DEFAULT_CONTENT[platform].description,
          hashtags |-> DEFAULT_CONTENT[platform].tags]
    ELSE [description |->
            IF ~includes(content.description, SC_SPARKLES)
               /\ ~includes(content.description, SC_STAR)
            THEN content.description \o "\n\n" \o SC_cta(platform)
            ELSE content.description,
          hashtags |->
            IF platform # "Pinterest" THEN formatHashtags(content.tags)
            ELSE content.tags]

\* generateSocialContent without its catch: a failed call is thrown on
generateSocialContentRethrowing(request, response, platform) ==
    IF trim(request.productFocus) = ""
    THEN [kind |-> "throw", value |-> "Product focus is required"]
    ELSE IF trim(request.productDescription) = ""
    THEN [kind |-> "throw", value |-> "Product description is required"]
    ELSE IF platform \notin DOMAIN DEFAULT_CONTENT
    THEN [kind |-> "throw", value |-> "Unsupported platform: " \o platform]
    ELSE IF response.kind # "answered"
    THEN [kind |-> "throw", value |-> "the model call failed"]
    ELSE [kind |-> "return",
          value |-> formatContent(SC_validateContent(response.description, platform),
                                  platform)]

\* generateSocialContent(params): response is what the awaited call of
\* analyzeImageAndGenerateContent did, a rejection, or a resolution whose
\* description is a text or undefined
generateSocialContent(request, response, platform) ==
    IF trim(request.productFocus) = ""
    THEN [kind |-> "throw", value |-> "Product focus is required"]
    ELSE IF trim(request.productDescription) = ""
    THEN [kind |-> "throw", value |-> "Product description is required"]
    ELSE IF platform \notin DOMAIN DEFAULT_CONTENT
    THEN [kind |-> "throw", value |-> "Unsupported platform: " \o platform]
    ELSE IF response.kind # "answered"
    THEN [kind |-> "return", value |-> formatContent(NullContent, platform)]
    ELSE [kind |-> "return",
          value |-> formatContent(SC_validateContent(response.description, platform),
                                  platform)]

(***************************************************************************)
(* instagramContent.ts                                                     *)
(***************************************************************************)
IG_maxLength == 150

IG_emotional == {"special", "unique", "perfect", "memorable"}

IG_personalization == {"personalize", "custom", "your"}

IG_benefits == {"quality", "premium", "exclusive"}

IG_cta == {"order now", "shop now", "get yours"}

IG_min == 10

IG_max == 15

\* INSTAGRAM_CONSTRAINTS.hashtags.categories, in the order of Object.entries
IG_categoryOrder == <<"easter", "product", "personalization", "style">>

IG_categories ==
    [easter |-> {"easter", "spring", "holiday"},
     product |-> {"gift", "decor", "design"},
     personalization |-> {"custom", "personalized", "unique"},
     style |-> {"handmade", "premium", "quality"}]

\* words.some(word => text.toLowerCase().includes(word))
someIncluded(text, words) ==
    LET lower == toLowerCase(text)
    IN  \E word \in words : includes(lower, word)

Return(value) == [kind |-> "return", value |-> value]

Throw(name, code, message) ==
    [kind |-> "throw", value |-> [name |-> name, code |-> code, message |-> message]]

\* validateDescription(description)
validateDescription(description) ==
    LET trimmed == trim(description)
        cut == IF Len(trimmed) > IG_maxLength
               THEN substring(trimmed, IG_maxLength - 3) \o "..."
               ELSE trimmed
        hasEmotional == someIncluded(cut, IG_emotional)
        hasPersonalization == someIncluded(cut, IG_personalization)
        hasBenefits == someIncluded(cut, IG_benefits)
        hasCTA == someIncluded(cut, IG_cta)
        added == cut
                 \o (IF ~hasEmotional \/ ~hasPersonalization
                     THEN " Make your space special with a personalized touch! $"
                     ELSE "")
                 \o (IF ~hasBenefits THEN " Premium quality guaranteed. @&" ELSE "")
                 \o (IF ~hasCTA THEN " Order now! @%" ELSE "")
    IN  IF description = "" THEN Throw("Error", "", "Error: Description is required")
        ELSE IF ~includes(added, "$") /\ ~includes(added, "@&")
        THEN Return("$ " \o added)
        ELSE Return(added)

\* the cleaned tags of lines 78-81
cleanTags(tags) ==
    LET kept == filterBoolean(mapTrim(tags))
    IN  [i \in 1..Len(kept) |-> hashPrefix(kept[i])]

\* the categories none of whose keywords occurs in any tag, lines 89-94
missingCategories(cleanedTags) ==
    LET lowerTags == [i \in 1..Len(cleanedTags) |-> toLowerCase(cleanedTags[i])]
    IN  SelectSeq(IG_categoryOrder,
            LAMBDA category :
                ~\E word \in IG_categories[category] :
                    \E i \in 1..Len(lowerTags) : includes(lowerTags[i], word))

\* validateHashtags(tags) for an array of strings
validateHashtags(tags) ==
    LET cleanedTags == cleanTags(tags)
        missing == missingCategories(cleanedTags)
    IN  IF Len(cleanedTags) < IG_min
        THEN Throw("Error", "", "Error: Minimum 10 hashtags required")
        ELSE IF Len(missing) > 0
        THEN Throw("Error", "",
                   "Error: Missing hashtags for categories: " \o join(missing, ", "))
        ELSE IF Len(cleanedTags) > IG_max
        THEN Return(SubSeq(cleanedTags, 1, IG_max))
        ELSE Return(cleanedTags)

(***************************************************************************)
(* part_000: validateInstagramContent                                      *)
(***************************************************************************)
P0_maxDescriptionLength == 150

P0_minHashtags == 10

P0_maxHashtags == 15

\* validateInstagramContent(content) for content = {description, tags}
validateInstagramContent(content) ==
    LET cut == IF Len(content.description) > P0_maxDescriptionLength
               THEN substring(content.description, P0_maxDescriptionLength - 3) \o "..."
               ELSE content.description
        appeal == IF ~includes(toLowerCase(cut), "special")
                     /\ ~includes(toLowerCase(cut), "unique")
                  THEN trim(cut) \o "\n\nMake it special! =+;"
                  ELSE cut
        description == IF ~includes(toLowerCase(appeal), "order now")
                       THEN trim(appeal) \o "\n\nOrder now for a personal touch! =/+;"
                       ELSE appeal
        hashtagList == cleanTags(splitRuns(content.tags, {",", " ", "\n", "\t", "\r"}))
    IN  IF Len(hashtagList) < P0_minHashtags
        THEN Throw("Error", "", "Not enough hashtags. Minimum required: 10")
        ELSE Return([description |-> description,
                     tags |-> join(IF Len(hashtagList) > P0_maxHashtags
                                   THEN SubSeq(hashtagList, 1, P0_maxHashtags)
                                   ELSE hashtagList, " ")])

(***************************************************************************)
(* logger.ts, diagnostics.ts and the ContentError of validation/index.ts.  *)
(* A call returns, with its value, the log entries it records (logs), the  *)
(* diagnostic reports it stores (reports) and the number of uuidv4() calls *)
(* it makes (used); uuidv4() is a counter, u being the next fresh value.   *)
(* Debug mode is off (logger.ts:15), so logger.debug records nothing.      *)
(***************************************************************************)
LogEntry(level, context, message, requestId) ==
    [level |-> level, context |-> context, message |-> message, requestId |-> requestId]

\* the sections the switch of createReport adds to diagnostic_info
diagnosticSections(code) ==
    IF code = "MISSING_INPUT" THEN {"missing_fields"}
    ELSE IF code = "INVALID_JSON" THEN {"validation_errors"}
    ELSE IF code = "IMAGE_PROCESSING_ERROR" THEN {"image_processing"}
    ELSE IF code = "MODEL_ERROR" THEN {"model_info"}
    ELSE IF code = "CONTENT_ERROR" THEN {"content_analysis"}
    ELSE {}

\* DiagnosticSystem.createReport(params): the stored report and its log entry
createReport(code, message, u) ==
    LET report == [error_code |-> code, message |-> message, request_id |-> u,
                   diagnostic_info |-> {"context"} \cup diagnosticSections(code)]
    IN  [report |-> report,
         logs |-> <<LogEntry("error", "DiagnosticSystem",
                             "Error [" \o code \o "]: " \o message, u)>>]

EmptyContext == [missingFields |-> <<>>, validationErrors |-> <<>>, attemptedModel |-> ""]

\* new ContentError(message, code, contextData): contextData carries no requestId
ContentError(message, code, contextData, u) ==
    LET diag == createReport(code, message, u + 1)
    IN  [error |-> [name |-> "ContentError", code |-> code, message |-> message,
                    requestId |-> u, context |-> contextData],
         logs |-> <<LogEntry("error", "ContentError", message, u)>> \o diag.logs,
         reports |-> <<diag.report>>,
         used |-> 2]

\* new Error(message)
PlainError(message) ==
    [name |-> "Error", code |-> "", message |-> message, requestId |-> 0,
     context |-> EmptyContext]

(***************************************************************************)
(* zod, as the schemas use it: a schema yields the issue messages in the   *)
(* order zod reports them; a wrong type aborts the checks of its field,    *)
(* a failed check or refinement does not.                                  *)
(***************************************************************************)
Undefined == [t |-> "undefined", v |-> "undefined"]

field(obj, key) == IF hasKey(obj, key) THEN obj.v[key] ELSE Undefined

\* zod's name of the type it received
receivedType(val) ==
    CASE val.t = "str" -> "string"
      [] val.t = "num" -> "number"
      [] val.t = "bool" -> "boolean"
      [] val.t = "arr" -> "array"
      [] val.t = "obj" -> "object"
      [] OTHER -> val.t

\* z.string() on val: no issue, or the one type issue
stringTypeIssues(val) ==
    IF val.t = "str" THEN <<>>
    ELSE IF val.t = "undefined" THEN <<"Required">>
    ELSE <<"Expected string, received " \o receivedType(val)>>

\* z.object() on val
objectTypeIssues(val) ==
    IF val.t = "obj" THEN <<>>
    ELSE IF val.t = "undefined" THEN <<"Required">>
    ELSE <<"Expected object, received " \o receivedType(val)>>

\* one check or refinement: its message when it fails
issueUnless(holds, message) == IF holds THEN <<>> ELSE <<message>>

noBraces(s) == ~includes(s, "{") /\ ~includes(s, "}")

\* z.string().min(lo, m1).max(hi, m2).refine(no braces, m3) on obj[key]
boundedStringIssues(obj, key, lo, minMessage, hi, maxMessage, braceMessage) ==
    Strict(field(obj, key), LAMBDA val :
        IF stringTypeIssues(val) # <<>> THEN stringTypeIssues(val)
        ELSE issueUnless(Len(val.v) >= lo, minMessage)
             \o issueUnless(Len(val.v) <= hi, maxMessage)
             \o issueUnless(noBraces(val.v), braceMessage))

\* whether val is an array of strings
isStringArray(val) ==
    val.t = "arr" /\ \A i \in 1..Len(val.v) : val.v[i].t = "str"

\* the tags of a value that is a string or an array of strings:
\* val.split(',').map(tag => tag.trim()).filter(Boolean), or the array itself
coerceTags(val) ==
    IF val.t = "str" THEN filterBoolean(mapTrim(split(val.v, ",")))
    ELSE [i \in 1..Len(val.v) |-> val.v[i].v]

\* z.union([z.string(), z.array(z.string())]).transform(..).refine(count).refine(non-empty)
unionTagsIssues(obj, lo, hi, countMessage) ==
    Strict(field(obj, "tags"), LAMBDA val :
        IF val.t # "str" /\ ~isStringArray(val) THEN <<"Invalid input">>
        ELSE Strict(coerceTags(val), LAMBDA tags :
                issueUnless(Len(tags) >= lo /\ Len(tags) <= hi, countMessage)
                \o issueUnless(\A i \in 1..Len(tags) : Len(trim(tags[i])) > 0,
                               "Tags cannot be empty")))

\* ZodError.message, abbreviated to the issue messages
zodMessage(issues) == "[" \o join(issues, "; ") \o "]"

SyntaxErrorMessage == "Unexpected token in JSON"

(***************************************************************************)
(* validation.ts: Validator                                                *)
(***************************************************************************)
VAL_titleMax == 50

VAL_titleMin == 1

VAL_descriptionMax == 200

VAL_descriptionMin == 150

VAL_tagsMin == 4

VAL_tagsMax == 12

\* ContentSchema.parse(data) of validation.ts: the issues, none when it passes
VAL_ContentSchema(data) ==
    Strict(data, LAMBDA d :
        IF objectTypeIssues(d) # <<>> THEN objectTypeIssues(d)
        ELSE boundedStringIssues(d, "title", VAL_titleMin, "Title is required",
                                 VAL_titleMax, "Title must be 50 characters or less",
                                 "Title cannot contain JSON syntax")
             \o boundedStringIssues(d, "description", VAL_descriptionMin,
                                 "Description must be at least 150 characters",
                                 VAL_descriptionMax,
                                 "Description must be 200 characters or less",
                                 "Description cannot contain JSON syntax")
             \o unionTagsIssues(d, VAL_tagsMin, VAL_tagsMax, "Must have between 4 and 12 tags"))

\* the value a passing schema with coerced tags returns
transformed(data) ==
    [title |-> data.v["title"].v, description |-> data.v["description"].v,
     tags |-> coerceTags(data.v["tags"])]

\* requiredFields.filter(field => !(field in data))
missingFieldsOf(data) ==
    SelectSeq(<<"title", "description", "tags">>, LAMBDA f : ~hasKey(data, f))

\* structureMessage had validateJSON extracted the brace span before its checks
extractedStructureMessage(text) ==
    Strict(trim(replaceBraceSpan(text)), LAMBDA trimmedInput :
        IF ~startsWith(trimmedInput, "{") \/ ~endsWith(trimmedInput, "}")
        THEN "Input must be a JSON object"
        ELSE Strict(JSONparse(trimmedInput), LAMBDA parsed :
                IF ~parsed.ok THEN SyntaxErrorMessage
                ELSE IF ~isPlainObject(parsed.val) THEN "Input must be a JSON object"
                ELSE IF Len(missingFieldsOf(parsed.val)) > 0
                THEN "Missing required fields: "
                     \o join(missingFieldsOf(parsed.val), ", ")
                ELSE ""))

\* the message of the error validateJSON throws inside its try, '' for none
structureMessage(text) ==
    Strict(trim(text), LAMBDA trimmedInput :
        IF ~startsWith(trimmedInput, "{") \/ ~endsWith(trimmedInput, "}")
        THEN "Input must be a JSON object"
        ELSE Strict(JSONparse(trimmedInput), LAMBDA parsed :
                IF ~parsed.ok THEN SyntaxErrorMessage
                ELSE IF ~isPlainObject(parsed.val) THEN "Input must be a JSON object"
                ELSE IF Len(missingFieldsOf(parsed.val)) > 0
                THEN "Missing required fields: "
                     \o join(missingFieldsOf(parsed.val), ", ")
                ELSE ""))

\* validateJSON(input) of validation.ts, validation/validator.ts,
\* validation/index.ts and google-search.ts, which differ in the log context
validateJSON(text, context, u) ==
    Strict(structureMessage(text), LAMBDA message :
        IF message = ""
        THEN [isValid |-> TRUE, data |-> JSONparse(trim(text)).val, error |-> "",
              logs |-> <<>>, used |-> 1]
        ELSE [isValid |-> FALSE, data |-> Undefined,
              error |-> "Content generation failed due to invalid JSON structure: "
                        \o message,
              logs |-> <<LogEntry("error", context,
                                  "JSON validation failed: " \o message, u)>>,
              used |-> 1])

VAL_validateJSON(text, u) == validateJSON(text, "Validator", u)

\* what validateContent returns for the issues of the schema; validated is
\* the value of a schema that passed
schemaResult(schemaIssues, validated, context, u) ==
    Strict(schemaIssues, LAMBDA issues :
        IF issues = <<>>
        THEN [isValid |-> TRUE, data |-> validated, error |-> "", logs |-> <<>>,
              used |-> 1]
        ELSE [isValid |-> FALSE, data |-> Undefined,
              error |-> "Content validation failed: " \o join(issues, ", "),
              logs |-> <<LogEntry("error", context,
                                  "Content validation failed: " \o zodMessage(issues),
                                  u)>>,
              used |-> 1])

\* the return of a validateContent whose JSON.parse(content) threw
unparsedResult(context, u) ==
    [isValid |-> FALSE, data |-> Undefined,
     error |-> "Content validation failed: " \o SyntaxErrorMessage,

     logs |-> <<LogEntry("error", context,
                         "Content validation failed: " \o SyntaxErrorMessage, u)>>,
     used |-> 1]

\* validateContent(content) of validation.ts for a parsed value
VAL_validateContent(data, u) ==
    Strict(data, LAMBDA d :
        schemaResult(VAL_ContentSchema(d), transformed(d), "Validator", u))

\* validateContent(content) of validation.ts for a string
VAL_validateContentText(content, u) ==
    Strict(JSONparse(content), LAMBDA parsed :
        IF ~parsed.ok THEN unparsedResult("Validator", u)
        ELSE VAL_validateContent(parsed.val, u))

\* the outcome of a validateAndTransform that throws ContentError
thrown(err, before, usedBefore) ==
    [kind |-> "throw", value |-> err.error, logs |-> before \o err.logs,
     reports |-> err.reports, used |-> usedBefore + err.used]

returned(value, entries, used) ==
    [kind |-> "return", value |-> value, logs |-> entries, reports |-> <<>>, used |-> used]

\* validateAndTransform(input) of validation.ts
VAL_validateAndTransform(text, u) ==
    Strict(VAL_validateJSON(text, u), LAMBDA structureResult :
        IF ~structureResult.isValid
        THEN thrown(ContentError(structureResult.error, "INVALID_JSON", EmptyContext, u + 1),
                    structureResult.logs, 1)
        ELSE Strict(VAL_validateContent(structureResult.data, u + 1), LAMBDA contentResult :
                IF ~contentResult.isValid
                THEN thrown(ContentError(contentResult.error, "VALIDATION_ERROR",
                                         EmptyContext, u + 2),
                            structureResult.logs \o contentResult.logs, 2)
                ELSE returned(contentResult.data, <<>>, 2)))

\* validateOutput(content) of validation.ts, validation/validator.ts and
\* google-search.ts, for a string content: issues are those of the schema
outputResult(parsedOk, schemaIssues, u) ==
    IF ~parsedOk
    THEN [isValid |-> FALSE, logs |-> <<>>, used |-> 1,
          error |-> "Content validation failed due to invalid JSON structure"]
    ELSE Strict(schemaIssues, LAMBDA issues :
            IF issues = <<>>
            THEN [isValid |-> TRUE, logs |-> <<>>, used |-> 1, error |-> ""]
            ELSE [isValid |-> FALSE, used |-> 1,
                  logs |-> <<LogEntry("error", "Validator", "Output validation failed", u)>>,
                  error |-> "Content validation failed: " \o join(issues, ", ")])

\* validateOutput(content) of validation.ts
VAL_validateOutput(content, u) ==
    Strict(JSONparse(content), LAMBDA parsed :
        outputResult(parsed.ok, VAL_ContentSchema(parsed.val), u))

(***************************************************************************)
(* google-search.ts (second file): ContentValidator                        *)
(***************************************************************************)
GS_descriptionMax == 2000

\* ContentSchema.parse(data) of google-search.ts
GS_ContentSchema(data) ==
    Strict(data, LAMBDA d :
        IF objectTypeIssues(d) # <<>> THEN objectTypeIssues(d)
        ELSE boundedStringIssues(d, "title", VAL_titleMin, "Title is required",
                                 VAL_titleMax, "Title must be 50 characters or less",
                                 "Title cannot contain JSON syntax")
             \o boundedStringIssues(d, "description", VAL_descriptionMin,
                                 "Description must be at least 150 characters",
                                 GS_descriptionMax,
                                 "Description must be 2000 characters or less",
                                 "Description cannot contain JSON syntax")
             \o unionTagsIssues(d, VAL_tagsMin, VAL_tagsMax, "Must have between 4 and 12 tags"))

GS_validateJSON(text, u) == validateJSON(text, "ContentValidator", u)

GS_validateContent(data, u) ==
    Strict(data, LAMBDA d :
        schemaResult(GS_ContentSchema(d), transformed(d), "ContentValidator", u))

\* validateAndTransform(input) of google-search.ts
GS_validateAndTransform(text, u) ==
    Strict(GS_validateJSON(text, u), LAMBDA structureResult :
        IF ~structureResult.isValid
        THEN thrown(ContentError(structureResult.error, "INVALID_JSON", EmptyContext, u + 1),
                    structureResult.logs, 1)
        ELSE Strict(GS_validateContent(structureResult.data, u + 1), LAMBDA contentResult :
                IF ~contentResult.isValid
                THEN thrown(ContentError(contentResult.error, "VALIDATION_ERROR",
                                         EmptyContext, u + 2),
                            structureResult.logs \o contentResult.logs, 2)
                ELSE returned(contentResult.data, <<>>, 2)))

(***************************************************************************)
(* jsonValidator.ts: JSONValidator                                         *)
(***************************************************************************)
\* the type issues of the elements of an array of strings
elementIssues(arr) ==
    LET wrong == SelectSeq(arr, LAMBDA e : e.t # "str")
    IN  [i \in 1..Len(wrong) |-> "Expected string, received " \o receivedType(wrong[i])]

\* z.array(z.string()).min(4, ..).max(12, ..).refine(non-empty) on obj.tags:
\* the refinement is skipped when an element is no string
arrayTagsIssues(obj) ==
    Strict(field(obj, "tags"), LAMBDA val :
        IF val.t = "undefined" THEN <<"Required">>
        ELSE IF val.t # "arr" THEN <<"Expected array, received " \o receivedType(val)>>
        ELSE issueUnless(Len(val.v) >= VAL_tagsMin, "At least 4 tags are required")
             \o issueUnless(Len(val.v) <= VAL_tagsMax, "Maximum 12 tags allowed")
             \o elementIssues(val.v)
             \o IF ~isStringArray(val) THEN <<>>
                ELSE issueUnless(\A i \in 1..Len(val.v) : Len(trim(val.v[i].v)) > 0,
                                 "Tags cannot be empty"))

\* ContentSchema.parse(data) of jsonValidator.ts
JV_ContentSchema(data) ==
    Strict(data, LAMBDA d :
        IF objectTypeIssues(d) # <<>> THEN objectTypeIssues(d)
        ELSE boundedStringIssues(d, "title", VAL_titleMin, "Title is required",
                                 VAL_titleMax, "Title must be 50 characters or less",
                                 "Title cannot contain JSON syntax")
             \o boundedStringIssues(d, "description", VAL_descriptionMin,
                                 "Description must be at least 150 characters",
                                 GS_descriptionMax,
                                 "Description must be 2000 characters or less",
                                 "Description cannot contain JSON syntax")
             \o arrayTagsIssues(d))

\* data.tags = data.tags.split(',').map(trim).filter(Boolean) when it is a string
withTagArray(data) ==
    IF data.v["tags"].t # "str" THEN data
    ELSE Strict(coerceTags(data.v["tags"]), LAMBDA tags :
            [t |-> "obj",
             v |-> [k \in DOMAIN data.v |->
                       IF k = "tags"
                       THEN [t |-> "arr",
                             v |-> [i \in 1..Len(tags) |-> [t |-> "str", v |-> tags[i]]]]
                       ELSE data.v[k]]])

\* the message of the error thrown inside the try of validateStructure, with
\* the data it has reached: the schema is parsed inside the same try
JV_structureMessage(text) ==
    Strict(structureMessage(text), LAMBDA first :
        IF first # "" THEN [message |-> first, data |-> Undefined]
        ELSE Strict(withTagArray(JSONparse(trim(text)).val), LAMBDA data :
                Strict(JV_ContentSchema(data), LAMBDA issues :
                    [message |-> IF issues # <<>> THEN zodMessage(issues) ELSE "",
                     data |-> data])))

\* validateStructure(input)
JV_validateStructure(text, u) ==
    Strict(JV_structureMessage(text), LAMBDA m :
        IF m.message = ""
        THEN [isValid |-> TRUE, data |-> m.data, error |-> "", logs |-> <<>>, used |-> 1]
        ELSE [isValid |-> FALSE, data |-> Undefined,
              error |-> "Content generation failed due to invalid JSON structure: "
                        \o m.message,
              logs |-> <<LogEntry("error", "JSONValidator",
                                  "JSON validation failed: " \o m.message, u)>>,
              used |-> 1])

\* the value the array schema returns
validatedArray(data) ==
    [title |-> data.v["title"].v, description |-> data.v["description"].v,
     tags |-> [i \in 1..Len(data.v["tags"].v) |-> data.v["tags"].v[i].v]]

JV_validateContent(data, u) ==
    Strict(data, LAMBDA d :
        schemaResult(JV_ContentSchema(d), validatedArray(d), "JSONValidator", u))

\* validateAndTransform(input) of jsonValidator.ts
JV_validateAndTransform(text, u) ==
    Strict(JV_validateStructure(text, u), LAMBDA structureResult :
        IF ~structureResult.isValid
        THEN thrown(ContentError(structureResult.error, "INVALID_JSON", EmptyContext, u + 1),
                    structureResult.logs, 1)
        ELSE Strict(JV_validateContent(structureResult.data, u + 1), LAMBDA contentResult :
                IF ~contentResult.isValid
                THEN thrown(ContentError(contentResult.error, "VALIDATION_ERROR",
                                         EmptyContext, u + 2),
                            structureResult.logs \o contentResult.logs, 2)
                ELSE returned(contentResult.data, <<>>, 2)))

(***************************************************************************)
(* contentError.ts and part_001: ContentGenerationError, ContentValidator  *)
(***************************************************************************)
\* new ContentGenerationError(message, code, contextData)
ContentGenerationError(message, code, contextData, u) ==
    [error |-> [name |-> "ContentGenerationError", code |-> code, message |-> message,
                requestId |-> u, context |-> contextData],
     logs |-> <<LogEntry("error", "ContentGeneration", message, u)>>,
     reports |-> <<>>,
     used |-> 1]

P1_MIN_TAGS == 10

P1_MAX_TAGS == 12

\* val.split(',').filter(Boolean).length
tagCount(val) == Len(filterBoolean(split(val, ",")))

\* z.string().min(1, ..).refine(tag count) on obj.tags
stringTagsIssues(obj) ==
    Strict(field(obj, "tags"), LAMBDA val :
        IF stringTypeIssues(val) # <<>> THEN stringTypeIssues(val)
        ELSE Strict(tagCount(val.v), LAMBDA count :
                issueUnless(Len(val.v) >= 1, "Tags are required")
                \o issueUnless(count >= P1_MIN_TAGS /\ count <= P1_MAX_TAGS,
                               "Must have between 10 and 12 tags")))

\* ContentSchema.parse(data) of part_001
P1_ContentSchema(data) ==
    Strict(data, LAMBDA d :
        IF objectTypeIssues(d) # <<>> THEN objectTypeIssues(d)
        ELSE boundedStringIssues(d, "title", VAL_titleMin, "Title is required",
                                 VAL_titleMax, "Title must be 50 characters or less",
                                 "Title cannot contain JSON syntax")
             \o boundedStringIssues(d, "description", VAL_descriptionMin,
                                 "Description must be at least 150 characters",
                                 VAL_descriptionMax,
                                 "Description must be 200 characters or less",
                                 "Description cannot contain JSON syntax")
             \o stringTagsIssues(d))

\* ContentValidator.validateJSON(input) of part_001: no key check, no request id
P1_validateJSON(text) ==
    Strict(trim(text), LAMBDA trimmedInput :
        Strict(IF startsWith(trimmedInput, "{") /\ endsWith(trimmedInput, "}")
               THEN JSONparse(trimmedInput) ELSE ParseFail, LAMBDA parsed :
            LET message == IF ~startsWith(trimmedInput, "{") \/ ~endsWith(trimmedInput, "}")
                           THEN "Input must be a JSON object"
                           ELSE IF ~parsed.ok THEN SyntaxErrorMessage
                           ELSE IF ~isPlainObject(parsed.val)
                           THEN "Input must be a JSON object"
                           ELSE ""
            IN  IF message = ""
                THEN [isValid |-> TRUE, data |-> parsed.val, error |-> "", logs |-> <<>>,
                      used |-> 0]
                ELSE [isValid |-> FALSE, data |-> Undefined,
                      error |-> "Content generation failed due to invalid JSON structure",
                      logs |-> <<LogEntry("error", "ContentValidator",
                                          "JSON validation failed: " \o message, 0)>>,
                      used |-> 0]))

\* the fields of validated that are blank after trim()
blankFields(data) ==
    SelectSeq(<<"title", "description", "tags">>, LAMBDA f : trim(data.v[f].v) = "")

\* ContentValidator.validateContent(content) of part_001
P1_validateContent(content, u) ==
    Strict(P1_validateJSON(content), LAMBDA jsonResult :
        IF ~jsonResult.isValid
        THEN thrown(ContentGenerationError(
                        "Invalid content detected. Please review the input and retry.",
                        "VALIDATION_ERROR", EmptyContext, u),
                    jsonResult.logs, 0)
        ELSE Strict(P1_ContentSchema(jsonResult.data), LAMBDA issues :
                IF issues # <<>>
                THEN thrown(ContentGenerationError("Content validation failed",
                                "VALIDATION_ERROR",
                                [EmptyContext EXCEPT !.validationErrors = issues], u),
                            <<>>, 0)
                ELSE IF Len(blankFields(jsonResult.data)) > 0
                THEN thrown(ContentGenerationError(
                                "Missing required fields in generated content",
                                "VALIDATION_ERROR",
                                [EmptyContext EXCEPT
                                    !.missingFields = blankFields(jsonResult.data)], u),
                            <<>>, 0)
                ELSE returned([title |-> jsonResult.data.v["title"].v,
                               description |-> jsonResult.data.v["description"].v,
                               tags |-> jsonResult.data.v["tags"].v], <<>>, 0)))

(***************************************************************************)
(* validation/index.ts: Validator                                          *)
(***************************************************************************)
VI_titleMax == 50

VI_descriptionMin == 150

VI_descriptionMax == 200

VI_tagsMin == 10

VI_tagsMax == 12

VI_validateJSON(text, u) == validateJSON(text, "Validator", u)

\* the error of the first failing check of validateOutput, '' when all pass
VI_firstError(content) ==
    LET title == field(content, "title")
        description == field(content, "description")
        tags == field(content, "tags")
    IN  IF ~isPlainObject(content) THEN "Content must be a valid JSON object"
        ELSE IF Len(missingFieldsOf(content)) > 0
        THEN "Missing required fields: " \o join(missingFieldsOf(content), ", ")
        ELSE IF title.t # "str" \/ Len(title.v) = 0 \/ Len(title.v) > VI_titleMax
        THEN "Title must be a non-empty string with maximum 50 characters"
        ELSE IF description.t # "str" \/ Len(description.v) < VI_descriptionMin
                \/ Len(description.v) > VI_descriptionMax
        THEN "Description must be between 150 and 200 characters"
        ELSE IF tags.t # "arr" \/ Len(tags.v) < VI_tagsMin \/ Len(tags.v) > VI_tagsMax
                \/ ~isStringArray(tags)
        THEN "Tags must be an array of 10-12 strings"
        ELSE ""

\* validateOutput(content) of validation/index.ts for a string content
VI_validateOutput(content, u) ==
    Strict(JSONparse(content), LAMBDA parsed :
        IF ~parsed.ok
        THEN [isValid |-> FALSE, logs |-> <<>>, used |-> 1,
              error |-> "Content validation failed due to invalid JSON structure"]
        ELSE Strict(VI_firstError(parsed.val), LAMBDA error :
                [isValid |-> error = "", error |-> error, logs |-> <<>>, used |-> 1]))

(***************************************************************************)
(* validation/validator.ts: the schema's rules and its Validator           *)
(***************************************************************************)
VV_titleMax == 50

VV_titleMin == 10

VV_descriptionMax == 200

VV_descriptionMin == 150

VV_tagsMin == 10

VV_tagsMax == 12

VV_tagMinLength == 3

VV_tagMaxLength == 30

requiredWords ==
    <<"personalized", "custom", "unique", "special", "mom", "mother", "mug", "gift">>

bannedWords == <<"nice", "good", "great", "awesome", "cool", "best">>

emotionalWords ==
    <<"special", "cherished", "heartfelt", "memorable", "delightful", "treasured",
      "beloved", "precious", "loving", "thoughtful">>

requiredPhrases ==
    << <<"perfect for", "ideal for", "designed for">>,
       <<"customize", "personalize", "make it yours">>,
       <<"order now", "shop now", "get yours">>,
       <<"celebrate", "cherish", "treasure">>,
       <<"special", "meaningful", "memorable">>,
       <<"mom", "mother", "mama">>,
       <<"love", "appreciation", "gratitude">> >>

requiredCategories ==
    <<"product_type", "design_style", "occasion", "personalization", "emotion",
      "target_audience", "gifting", "mothers_day">>

\* /w1|w2|../i.test(text) for literal alternatives
testAny(words, text) ==
    \E t \in {toLowerCase(text)} :
        \E i \in 1..Len(words) : includes(t, toLowerCase(words[i]))

containsRequiredWords(text, words) == testAny(words, text)

containsEmotionalWords(text) == testAny(emotionalWords, text)

containsBannedWords(text, words) == testAny(words, text)

hasRequiredPhrases(text, phraseGroups) ==
    \A g \in 1..Len(phraseGroups) : testAny(phraseGroups[g], text)

hasValidDescription(text) ==
    LET hasFeatures ==
            testAny(<<"features", "includes", "designed", "made with", "crafted", "created">>, text)
        hasBenefits ==
            testAny(<<"perfect for", "celebrate", "cherish", "treasure", "create">>, text)
        hasPersonalization ==
            testAny(<<"customize", "personalize", "your", "name", "text">>, text)
        hasEmotionalAppeal ==
            testAny(<<"special", "meaningful", "memorable", "unique", "cherished">>, text)
        hasPracticalUses ==
            testAny(<<"coffee", "tea", "drink", "beverage", "morning">>, text)
        hasGiftingValue ==
            testAny(<<"perfect gift", "ideal present", "thoughtful gift", "special gift">>, text)
        hasMothersDayValue ==
            testAny(<<"mother", "mom", "mama", "mother's day", "maternal">>, text)
        hasCallToAction ==
            testAny(<<"order", "shop", "get yours", "make it yours">>, text)
    IN  hasFeatures /\ hasBenefits /\ hasPersonalization /\ hasEmotionalAppeal
        /\ hasPracticalUses /\ hasGiftingValue /\ hasMothersDayValue /\ hasCallToAction

\* the characters \w matches
WordChars ==
    {charAt(LowerCase, i) : i \in 1..26} \cup {charAt(UpperCase, i) : i \in 1..26}
        \cup Digits \cup {"_"}

\* /[^\w\s-]/.test(tag)
hasForbiddenChar(tag) ==
    \E i \in 1..Len(tag) : charAt(tag, i) \notin WordChars \cup WhiteSpace \cup {"-"}

\* /^(the|and|or|in|on|at|to)$/i.test(tag)
isStopWord(tag) == toLowerCase(tag) \in {"the", "and", "or", "in", "on", "at", "to"}

\* isValidTag had it checked the declared length and word count only
declaredTagChecks(tag) ==
    /\ Len(tag) >= VV_tagMinLength
    /\ Len(tag) <= VV_tagMaxLength
    /\ Len(splitRuns(tag, WhiteSpace)) <= 3

isValidTag(tag) ==
    IF Len(tag) < VV_tagMinLength \/ Len(tag) > VV_tagMaxLength
       \/ hasForbiddenChar(tag) \/ includes(tag, "  ") \/ isStopWord(tag)
    THEN FALSE
    ELSE IF Len(splitRuns(tag, WhiteSpace)) > 3 THEN FALSE
    ELSE IF testAny(<<"best", "amazing", "awesome", "incredible", "perfect">>, tag) THEN FALSE
    ELSE TRUE

\* categorizeTag had it tried the personalization pattern first
personalizationFirst(tag) ==
    IF testAny(<<"custom", "personalized", "unique">>, tag) THEN "personalization"
    ELSE IF testAny(<<"mug", "cup", "coffee", "tea", "drinkware">>, tag) THEN "product_type"
    ELSE "other"

categorizeTag(tag) ==
    LET lowerTag == toLowerCase(tag)
    IN  IF testAny(<<"mug", "cup", "coffee", "tea", "drinkware">>, lowerTag) THEN "product_type"
        ELSE IF testAny(<<"handmade", "elegant", "classic", "modern">>, lowerTag)
        THEN "design_style"
        ELSE IF testAny(<<"mothers day", "celebration", "holiday">>, lowerTag) THEN "occasion"
        ELSE IF testAny(<<"custom", "personalized", "unique">>, lowerTag)
        THEN "personalization"
        ELSE IF testAny(<<"special", "cherished", "heartfelt", "memorable">>, lowerTag)
        THEN "emotion"
        ELSE IF testAny(<<"mom", "mother", "parent", "family">>, lowerTag)
        THEN "target_audience"
        ELSE IF testAny(<<"gift idea", "perfect gift", "thoughtful present">>, lowerTag)
        THEN "gifting"
        ELSE IF testAny(<<"mothers day gift", "mom present", "maternal">>, lowerTag)
        THEN "mothers_day"
        ELSE "other"

hasRequiredTagCategories(tags) ==
    LET categories == {categorizeTag(tags[i]) : i \in 1..Len(tags)}
    IN  \A c \in 1..Len(requiredCategories) : requiredCategories[c] \in categories

\* new Set(tags).size === tags.length
allDistinct(tags) == Cardinality({tags[i] : i \in 1..Len(tags)}) = Len(tags)

\* the issues of the title of the schema's ContentSchema
VV_titleIssues(obj) ==
    Strict(field(obj, "title"), LAMBDA val :
        IF stringTypeIssues(val) # <<>> THEN stringTypeIssues(val)
        ELSE issueUnless(Len(val.v) >= VV_titleMin, "Title must be at least 10 characters")
             \o issueUnless(Len(val.v) <= VV_titleMax, "Title must be 50 characters or less")
             \o issueUnless(noBraces(val.v), "Title cannot contain JSON syntax")
             \o issueUnless(containsRequiredWords(val.v, requiredWords),
                            "Title must include required keywords")
             \o issueUnless(containsEmotionalWords(val.v),
                            "Title must include emotional or engaging words")
             \o issueUnless(~containsBannedWords(val.v, bannedWords),
                            "Title contains generic or banned words"))

VV_descriptionIssues(obj) ==
    Strict(field(obj, "description"), LAMBDA val :
        IF stringTypeIssues(val) # <<>> THEN stringTypeIssues(val)
        ELSE issueUnless(Len(val.v) >= VV_descriptionMin,
                         "Description must be at least 150 characters")
             \o issueUnless(Len(val.v) <= VV_descriptionMax,
                            "Description must be 200 characters or less")
             \o issueUnless(noBraces(val.v), "Description cannot contain JSON syntax")
             \o issueUnless(hasValidDescription(val.v),
                            "Description must include product features, benefits, personalization, emotional appeal, practical uses, gifting value, Mother's Day value, and a call to action")
             \o issueUnless(hasRequiredPhrases(val.v, requiredPhrases),
                            "Description must include required marketing phrases"))

VV_tagsIssues(obj) ==
    Strict(field(obj, "tags"), LAMBDA val :
        IF stringTypeIssues(val) # <<>> THEN stringTypeIssues(val)
        ELSE Strict(coerceTags(val), LAMBDA tags :
             issueUnless(Len(tags) >= VV_tagsMin /\ Len(tags) <= VV_tagsMax,
                         "Must have between 10 and 12 tags")
             \o issueUnless(\A i \in 1..Len(tags) : isValidTag(tags[i]),
                            "Tags must be between 3-30 characters and contain only letters, numbers, spaces, and hyphens")
             \o issueUnless(allDistinct(tags), "Tags must be unique")
             \o issueUnless(~\E i \in 1..Len(tags) : Len(split(tags[i], " ")) > 3,
                            "Tags should not be full sentences")
             \o issueUnless(hasRequiredTagCategories(tags),
                            "Tags must cover all required categories: product type, design style, occasion, personalization, emotion, target audience, gifting, and Mother's Day")))

\* ContentSchema.parse(data) of validation/validator.ts
VV_ContentSchema(data) ==
    Strict(data, LAMBDA d :
        IF objectTypeIssues(d) # <<>> THEN objectTypeIssues(d)
        ELSE VV_titleIssues(d) \o VV_descriptionIssues(d) \o VV_tagsIssues(d))

VV_validateJSON(text, u) == validateJSON(text, "Validator", u)

\* Validator.validateContent(content) of validation/validator.ts for a parsed value
VV_validateContent(data, u) ==
    Strict(data, LAMBDA d :
        schemaResult(VV_ContentSchema(d), transformed(d), "Validator", u))

\* Validator.validateAndTransform(input) of validation/validator.ts
VV_validateAndTransform(text, u) ==
    Strict(VV_validateJSON(text, u), LAMBDA structureResult :
        IF ~structureResult.isValid
        THEN [kind |-> "throw", value |-> PlainError(structureResult.error),
              logs |-> structureResult.logs, reports |-> <<>>, used |-> 1]
        ELSE Strict(VV_validateContent(structureResult.data, u + 1), LAMBDA contentResult :
                IF ~contentResult.isValid
                THEN [kind |-> "throw", value |-> PlainError(contentResult.error),
                      logs |-> contentResult.logs, reports |-> <<>>, used |-> 2]
                ELSE returned(contentResult.data, <<>>, 2)))

(***************************************************************************)
(* App.tsx: analyzeImageAndGenerateContent, from the answer of the model   *)
(* (content, line 302) on.  requestId is the fresh value u; a failure is    *)
(* logged once under it and thrown again (lines 336-342).                   *)
(***************************************************************************)
APP_titleMax == 50

APP_titleKept == 47

APP_minWords == 2

APP_maxWords == 5

APP_minTags == 10

APP_failed(name, message, u) ==
    [kind |-> "throw",
     value |-> [name |-> name, code |-> "", message |-> message, requestId |-> 0,
                context |-> EmptyContext],
     logs |-> <<LogEntry("error", "OpenAI", "Direct fetch content generation failed", u)>>,
     reports |-> <<>>, used |-> 1]

\* !parsed[key]
APP_missing(obj, key) == ~hasKey(obj, key) \/ falsy(obj.v[key])

\* value.length > 50 and the call of value.substring that follows it
APP_tooLong(value) ==
    \/ value.t \in {"str", "arr"} /\ Len(value.v) > APP_titleMax
    \/ value.t = "obj" /\ hasKey(value, "length") /\ value.v["length"].t = "num"
        /\ value.v["length"].v > APP_titleMax

\* the filter of lines 320-323
APP_longTail(tag) ==
    /\ tag # ""
    /\ Len(splitRuns(tag, WhiteSpace)) >= APP_minWords
    /\ Len(splitRuns(tag, WhiteSpace)) <= APP_maxWords

APP_tags(text) == SelectSeq(mapTrim(split(text, ",")), APP_longTail)

analyzeImageAndGenerateContent(content, u) ==
    IF content = "" THEN APP_failed("Error", "No content received from API", u)
    ELSE Strict(JSONparse(content), LAMBDA parsed :
        IF ~parsed.ok THEN APP_failed("SyntaxError", SyntaxErrorMessage, u)
        ELSE IF parsed.val.t = "null"
        THEN APP_failed("TypeError", "Cannot read properties of null", u)
        ELSE IF parsed.val.t # "obj"
                \/ APP_missing(parsed.val, "title")
                \/ APP_missing(parsed.val, "description")
                \/ APP_missing(parsed.val, "tags")
        THEN APP_failed("Error", "Incomplete content structure received", u)
        ELSE IF APP_tooLong(parsed.val.v["title"]) /\ parsed.val.v["title"].t # "str"
        THEN APP_failed("TypeError", "parsed.title.substring is not a function", u)
        ELSE IF parsed.val.v["tags"].t # "str"
        THEN APP_failed("TypeError", "parsed.tags.split is not a function", u)
        ELSE Strict(APP_tags(parsed.val.v["tags"].v), LAMBDA tags :
            IF Len(tags) < APP_minTags
            THEN APP_failed("Error", "At least 10 specific, long-tail tags are required", u)
            ELSE returned(
                [title |-> IF APP_tooLong(parsed.val.v["title"])
                           THEN [t |-> "str",
                                 v |-> substring(parsed.val.v["title"].v, APP_titleKept)
                                        \o "..."]
                           ELSE parsed.val.v["title"],
                 description |-> parsed.val.v["description"],
                 tags |-> join(tags, ", "),
                 keywords |-> tags],
                <<>>, 1)))

(***************************************************************************)
(* Bounds and inputs of the normalizers                                    *)
(***************************************************************************)
\* every length limit L is explored with the lengths L-Slack .. L+Slack
Slack == 1

around(limit) == (limit - Slack)..(limit + Slack)

NoResult == [kind |-> "none"]

\* the JSON text of an object with the three keys as strings
objectText(title, description, tags) ==
    "{\"title\":\"" \o title \o "\",\"description\":\"" \o description
        \o "\",\"tags\":\"" \o tags \o "\"}"

SocialTitles ==
    {"Custom Mug", " "} \cup {repeat("T", n) : n \in around(SC_MAX_TITLE_LENGTH)}
    \cup {" " \o repeat("T", n) \o " " : n \in around(SC_MAX_TITLE_LENGTH)}

ShortDescriptions ==
    {repeat("d", n) : n \in around(SC_MIN_DESCRIPTION_LENGTH)}
    \cup {repeat("d", SC_MIN_DESCRIPTION_LENGTH) \o SC_STAR}

LongDescriptions ==
    {repeat("d", n) : n \in around(SC_MAX_DESCRIPTION_LENGTH)}
    \cup {SC_SPARKLES \o repeat("d", n - 3) : n \in around(SC_MAX_DESCRIPTION_LENGTH)}

\* the tags field, and the tags it was written from
SocialTags ==
    {[text |-> "mug, gift", list |-> <<"mug", "gift">>],
     [text |-> "", list |-> <<>>],
     [text |-> "#mug,, gift ,", list |-> <<"#mug", "gift">>],
     [text |-> "mug, gift, mug", list |-> <<"mug", "gift", "mug">>]}

\* text around the object: [prefix, suffix]
SocialWrappers ==
    {<<"", "">>, <<" \n", "\n">>, <<"Sure! ", " Hope that helps!">>,
     <<"", " see {x}">>, <<"", " {">>, <<"", " }">>, <<"{} ", "">>}

\* the objects with a title, a description and tags, each as a string
SocialObjects ==
    {[body |-> objectText(t, d, g.text), title |-> t, tagList |-> g.list] :
        t \in SocialTitles, d \in ShortDescriptions, g \in SocialTags}
    \cup {[body |-> objectText("Custom Mug", d, "mug, gift"), title |-> "Custom Mug",
           tagList |-> <<"mug", "gift">>] : d \in LongDescriptions}

\* texts without a JSON object, or with one that has no title or description
LackingBodies ==
    {"{\"description\":\"" \o repeat("d", 100) \o "\"}",
     "{\"title\":\"Custom Mug\",\"tags\":\"mug, gift\"}",
     "no json here", "[1]", "{\"title\":"}

SocialBodies ==
    {"{\"title\":\"Custom Mug\",\"description\":\"" \o repeat("d", 100) \o "\"}",
     "{\"title\":\"Custom Mug\",\"description\":\"" \o repeat("d", 100)
         \o "\",\"tags\":[\"mug\",\"gift\"]}",
     "{\"title\":5,\"description\":\"" \o repeat("d", 100) \o "\"}"}
    \cup LackingBodies

PlainBody == objectText("Custom Mug", repeat("d", SC_MIN_DESCRIPTION_LENGTH), "mug, gift")

SocialInputs ==
    {[kind |-> "social", platform |-> p, prefix |-> "", body |-> o.body, suffix |-> "",
      text |-> o.body, built |-> TRUE, title |-> o.title, tagList |-> o.tagList,
      lacking |-> o.title = " "] :
        p \in Platforms, o \in SocialObjects}
    \cup {[kind |-> "social", platform |-> p, prefix |-> "", body |-> b, suffix |-> "",
           text |-> b, built |-> FALSE, title |-> "", tagList |-> <<>>,
           lacking |-> b \in LackingBodies] :
            p \in Platforms, b \in SocialBodies}
    \cup {[kind |-> "social", platform |-> p, prefix |-> w[1], body |-> PlainBody,
           suffix |-> w[2], text |-> w[1] \o PlainBody \o w[2], built |-> FALSE,
           title |-> "Custom Mug", tagList |-> <<"mug", "gift">>, lacking |-> FALSE] :
            p \in Platforms, w \in SocialWrappers}

\* the phrases a description may open with, one per required element
DescriptionOpenings ==
    {e \o q \o b \o c \o m :
        e \in {"", "A special and custom "}, q \in {"", "Unique "},
        b \in {"", "premium "}, c \in {"", "Order Now "}, m \in {"", "$ "}}

DescriptionInputs ==
    {[kind |-> "description", text |-> o \o repeat("d", n - Len(o))] :
        o \in DescriptionOpenings, n \in {60} \cup around(IG_maxLength)}
    \cup {[kind |-> "description", text |-> t] : t \in {"", "  mug  ", " "}}

tagString(n) == join([i \in 1..n |-> "tag" \o numberToString(i)], ", ")

ContentInputs ==
    {[kind |-> "content",
      content |-> [description |-> o \o repeat("d", n - Len(o)), tags |-> tagString(k)]] :
        o \in {"", "Special ", "order now ", "Unique, Order Now "},
        n \in {60} \cup around(P0_maxDescriptionLength),
        k \in around(P0_minHashtags) \cup around(P0_maxHashtags)}
    \cup {[kind |-> "content",
           content |-> [description |-> "Special " \o repeat("d", 52),
                        tags |-> tagString(P0_minHashtags) \o ", tag1"]]}

\* answers given to analyzeImageAndGenerateContent: tags of three words
AnswerTag(i) == "custom mug " \o numberToString(i)

AnswerTagLists ==
    {[i \in 1..n |-> AnswerTag(i)] : n \in around(APP_minTags)}
    \cup {[i \in 1..(APP_minTags + 1) |-> AnswerTag(IF i > APP_minTags THEN 1 ELSE i)],
          [i \in 1..APP_minTags |-> AnswerTag(i)] \o <<"mug", "", "a mug for mom and dad too">>,
          [i \in 1..(APP_minTags - 1) |-> AnswerTag(i)] \o <<"mug">>}

AnswerTitles ==
    {"Custom Mug", " " \o repeat("T", APP_titleMax)}
    \cup {repeat("T", n) : n \in around(APP_titleMax)}

AnswerInputs ==
    {[kind |-> "answer", built |-> TRUE, title |-> t, tagList |-> g,
      text |-> objectText(t, "A mug for every morning.", join(g, ", "))] :
        t \in AnswerTitles, g \in AnswerTagLists}
    \cup {[kind |-> "answer", built |-> FALSE, title |-> "", tagList |-> <<>>, text |-> c] :
            c \in {"", "null", "5", "no json here",
                   "{\"title\":5,\"description\":\"A mug.\",\"tags\":\""
                        \o join([i \in 1..APP_minTags |-> AnswerTag(i)], ", ") \o "\"}",
                   "{\"title\":\"Custom Mug\",\"description\":\"A mug.\","
                        \o "\"tags\":[\"custom mug\"]}",
                   "{\"title\":\"Custom Mug\",\"description\":\"A mug.\"}"}}

(***************************************************************************)
(* The normalizers as a state machine: one call per behaviour              *)
(***************************************************************************)
InitNormalizer ==
    /\ input \in SocialInputs \cup DescriptionInputs \cup ContentInputs \cup AnswerInputs
    /\ pc = "start"
    /\ result = NoResult
    /\ logs = <<>>
    /\ reports = <<>>
    /\ nextId = 1
    /\ state = NoState
    /\ inflight = <<>>

\* socialContent.ts validateContent(content, platform)
ValidateContent ==
    /\ pc = "start"
    /\ input.kind = "social"
    /\ pc' = "validateContent"
    /\ result' = Return(SC_validateContent(input.text, input.platform))
    /\ UNCHANGED <<input, logs, reports, nextId, state, inflight>>

\* the caller's product focus and description, and what the model call did:
\* it answered input.text, resolved without a description, or rejected
SocialCalls ==
    {[productFocus |-> "mug", productDescription |-> "A mug for mom", response |-> r] :
        r \in {"answered", "undefined", "rejected"}}
    \cup {[productFocus |-> " ", productDescription |-> "A mug for mom",
           response |-> "answered"],
          [productFocus |-> "mug", productDescription |-> "", response |-> "answered"]}

\* generateSocialContent(params)
GenerateSocialContent ==
    /\ pc = "start"
    /\ input.kind = "social"
    /\ pc' = "generateSocialContent"
    /\ \E call \in SocialCalls :
        \E r \in {generateSocialContent(call, [kind |-> call.response,
                                                description |-> input.text],
                                         input.platform)} :
            result' = [kind |-> r.kind, value |-> r.value, call |-> call]
    /\ UNCHANGED <<input, logs, reports, nextId, state, inflight>>

ValidateDescription ==
    /\ pc = "start"
    /\ input.kind = "description"
    /\ pc' = "validateDescription"
    /\ result' = validateDescription(input.text)
    /\ UNCHANGED <<input, logs, reports, nextId, state, inflight>>

ValidateInstagramContent ==
    /\ pc = "start"
    /\ input.kind = "content"
    /\ pc' = "validateInstagramContent"
    /\ result' = validateInstagramContent(input.content)
    /\ UNCHANGED <<input, logs, reports, nextId, state, inflight>>

\* App.tsx analyzeImageAndGenerateContent: the model answered input.text
AnalyzeImageAndGenerateContent ==
    /\ pc = "start"
    /\ input.kind = "answer"
    /\ pc' = "analyzeImageAndGenerateContent"
    /\ \E r \in {analyzeImageAndGenerateContent(input.text, nextId)} :
            /\ result' = [kind |-> r.kind, value |-> r.value]
            /\ logs' = logs \o r.logs
            /\ reports' = reports \o r.reports
            /\ nextId' = nextId + r.used
    /\ UNCHANGED <<input, state, inflight>>

\* validateDescription called on the description it returned
ValidateDescriptionAgain ==
    /\ pc = "validateDescription"
    /\ result.kind = "return"
    /\ pc' = "validateDescriptionAgain"
    /\ \E r \in {validateDescription(result.value)} :
            result' = [kind |-> r.kind, value |-> r.value, first |-> result.value]
    /\ UNCHANGED <<input, logs, reports, nextId, state, inflight>>

\* formatContent called on the record it returned, its hashtags as tags
FormatContentAgain ==
    /\ pc = "generateSocialContent"
    /\ result.kind = "return" /\ result.call.response = "answered"
    /\ pc' = "formatContentAgain"
    /\ \E r \in {formatContent([isNull |-> FALSE, title |-> "",
                                 description |-> result.value.description,
                                 tags |-> result.value.hashtags], input.platform)} :
            result' = [kind |-> "return", value |-> r, first |-> result.value]
    /\ UNCHANGED <<input, logs, reports, nextId, state, inflight>>

NextNormalizer ==
    \/ ValidateContent
    \/ GenerateSocialContent
    \/ ValidateDescription
    \/ ValidateInstagramContent
    \/ AnalyzeImageAndGenerateContent
    \/ ValidateDescriptionAgain
    \/ FormatContentAgain

SpecNormalizer == InitNormalizer /\ [][NextNormalizer]_vars

(***************************************************************************)
(* Inputs of the validators: model answers, as text.  Every input records  *)
(* how it was built: shape is "complete" (an object with the three keys),  *)
(* "incomplete" (an object lacking the keys in absent), "nonobject" (other *)
(* JSON) or "unparseable"; broken holds the fields given a value that is   *)
(* too short, too long or too few or many; clean tells that only white     *)
(* space surrounds the body.                                               *)
(***************************************************************************)
quoted(s) == "\"" \o s \o "\""

\* a JSON array of n tags
tagArray(n) == "[" \o join([i \in 1..n |-> quoted("tag" \o numberToString(i))], ",") \o "]"

\* the JSON text of an object whose members are given as JSON fragments
memberText(title, description, tags) ==
    "{\"title\":" \o title \o ",\"description\":" \o description
        \o ",\"tags\":" \o tags \o "}"

GoodTitle == [json |-> quoted("Custom Mug"), broken |-> FALSE]

GoodDescription == [json |-> quoted(repeat("d", VAL_descriptionMin)), broken |-> FALSE]

GoodTags == [json |-> tagArray(VI_tagsMin), broken |-> FALSE, form |-> "array",
             count |-> VI_tagsMin]

\* a title and a description within the bounds that hold a brace
BracedTitle == [json |-> quoted("Mug {1}"), broken |-> FALSE]

BracedDescription == [json |-> quoted("{" \o repeat("d", VAL_descriptionMin)), broken |-> FALSE]

\* one title per outcome of the title checks
TitleChoices ==
    {GoodTitle,
     [json |-> quoted(""), broken |-> TRUE],
     BracedTitle,
     [json |-> "5", broken |-> FALSE]}
    \cup {[json |-> quoted(repeat("T", n)), broken |-> n > VAL_titleMax] :
            n \in around(VAL_titleMax)}

DescriptionChoices ==
    {[json |-> quoted(repeat("d", n)),
      broken |-> n < VAL_descriptionMin \/ n > VAL_descriptionMax] :
        n \in around(VAL_descriptionMin) \cup around(VAL_descriptionMax)}
    \cup {BracedDescription}

\* tag counts at which some validator changes its answer
TagCounts == around(VAL_tagsMin) \cup around(VI_tagsMin) \cup around(VAL_tagsMax)

\* form tells how the tags are given, count how many of them are not blank
TagsChoices ==
    {[json |-> tagArray(n), broken |-> n < VAL_tagsMin \/ n > VAL_tagsMax,
      form |-> "array", count |-> n] : n \in TagCounts}
    \cup {[json |-> quoted(tagString(n)), broken |-> FALSE, form |-> "string", count |-> n] :
            n \in TagCounts}
    \cup {[json |-> quoted(tagString(n) \o ", ,"), broken |-> FALSE, form |-> "string",
           count |-> n] : n \in around(P1_MIN_TAGS)}
    \cup {[json |-> quoted(""), broken |-> FALSE, form |-> "string", count |-> 0],
          [json |-> quoted(" , "), broken |-> FALSE, form |-> "string", count |-> 0],
          [json |-> "[\"\",\"a\",\"b\",\"c\"]", broken |-> FALSE, form |-> "array",
           count |-> 3],
          [json |-> "[1,2,3,4]", broken |-> FALSE, form |-> "other", count |-> 0],
          [json |-> "7", broken |-> FALSE, form |-> "other", count |-> 0]}

\* the choices combined in every way
TitleClasses == {c \in TitleChoices : c.json \in {GoodTitle.json, quoted(""),
                                                  quoted(repeat("T", VAL_titleMax + 1))}}

DescriptionClasses ==
    {c \in DescriptionChoices :
        c.json \in {GoodDescription.json, quoted(repeat("d", VAL_descriptionMin - 1)),
                    quoted(repeat("d", VAL_descriptionMax + 1))}}

TagsClasses ==
    {c \in TagsChoices : c.json \in {GoodTags.json, tagArray(VAL_tagsMin - 1),
                                     tagArray(VAL_tagsMax + 1)}}

brokenFields(t, d, g) ==
    {f \in {"title", "description", "tags"} :
        \/ f = "title" /\ t.broken
        \/ f = "description" /\ d.broken
        \/ f = "tags" /\ g.broken}

CompleteInput(t, d, g) ==
    [kind |-> "json", prefix |-> "", body |-> memberText(t.json, d.json, g.json),
     suffix |-> "", text |-> memberText(t.json, d.json, g.json), shape |-> "complete",
     absent |-> {}, broken |-> brokenFields(t, d, g), clean |-> TRUE,
     varied |-> {"title" : x \in {t} \ {GoodTitle}}
                    \cup {"description" : x \in {d} \ {GoodDescription}},
     tagsForm |-> g.form, tagsCount |-> g.count]

CompleteInputs ==
    {CompleteInput(t, d, g) : t \in TitleClasses, d \in DescriptionClasses, g \in TagsClasses}
    \cup {CompleteInput(t, GoodDescription, GoodTags) : t \in TitleChoices}
    \cup {CompleteInput(GoodTitle, d, GoodTags) : d \in DescriptionChoices}
    \cup {CompleteInput(GoodTitle, GoodDescription, g) : g \in TagsChoices}

\* a body every schema but the business rules accepts: ten tags in a string
ValidBody == memberText(GoodTitle.json, GoodDescription.json, quoted(tagString(VI_tagsMin)))

\* the members of an object that lacks the keys of absent
keptMembers(absent) ==
    SelectSeq(<<"title", "description", "tags">>, LAMBDA f : f \notin absent)

memberJson(f) ==
    IF f = "title" THEN GoodTitle.json
    ELSE IF f = "description" THEN GoodDescription.json
    ELSE GoodTags.json

partialText(absent) ==
    "{" \o join([i \in 1..Len(keptMembers(absent)) |->
                    quoted(keptMembers(absent)[i]) \o ":" \o memberJson(keptMembers(absent)[i])],
                ",") \o "}"

IncompleteInputs ==
    {[kind |-> "json", prefix |-> "", body |-> partialText(a), suffix |-> "",
      text |-> partialText(a), shape |-> "incomplete", absent |-> a, broken |-> {},
      clean |-> TRUE, varied |-> {}, tagsForm |-> "none", tagsCount |-> 0] :
        a \in (SUBSET {"title", "description", "tags"}) \ {{}}}

OtherInputs ==
    {[kind |-> "json", prefix |-> "", body |-> b, suffix |-> "", text |-> b,
      shape |-> "nonobject", absent |-> {}, broken |-> {}, clean |-> TRUE, varied |-> {},
      tagsForm |-> "none", tagsCount |-> 0] :
        b \in {"[1]", "[" \o ValidBody \o "]", "5", "null", "true", quoted("title")}}
    \cup {[kind |-> "json", prefix |-> "", body |-> b, suffix |-> "", text |-> b,
           shape |-> "unparseable", absent |-> {}, broken |-> {}, clean |-> TRUE,
           varied |-> {}, tagsForm |-> "none", tagsCount |-> 0] :
            b \in {"", "no json here", "{\"title\":", "{title:1}", "{\"title\":\"a\",}"}}

\* text around the object: [prefix, suffix]
CleanWrappers == {<<" \n", "\n">>, <<"\t", "">>, <<"", "  ">>}

ProseWrappers ==
    {<<"Sure! ", " Hope that helps!">>, <<"Here it is:\n", "">>, <<"", "\nEnjoy">>,
     <<"", " see {x}">>, <<"{} ", "">>, <<"json ", " ">>}

WrappedInputs ==
    {[kind |-> "json", prefix |-> w[1], body |-> b, suffix |-> w[2],
      text |-> w[1] \o b \o w[2], shape |-> "complete", absent |-> {}, broken |-> {},
      clean |-> w \in CleanWrappers, varied |-> {},
      tagsForm |-> IF b = ValidBody THEN "string" ELSE "array", tagsCount |-> VI_tagsMin] :
        w \in CleanWrappers \cup ProseWrappers,
        b \in {ValidBody, CompleteInput(GoodTitle, GoodDescription, GoodTags).body}}

ValidatorInputs == CompleteInputs \cup IncompleteInputs \cup OtherInputs \cup WrappedInputs

(***************************************************************************)
(* The validators as a state machine: one call per behaviour               *)
(***************************************************************************)
InitValidator ==
    /\ input \in ValidatorInputs
    /\ pc = "start"
    /\ result = NoResult
    /\ logs = <<>>
    /\ reports = <<>>
    /\ nextId = 1
    /\ state = NoState
    /\ inflight = <<>>

\* what a call leaves behind: its name, its outcome, its log entries and reports
Finish(name, value, newLogs, newReports, used) ==
    /\ pc' = name
    /\ result' = value
    /\ logs' = logs \o newLogs
    /\ reports' = reports \o newReports
    /\ nextId' = nextId + used
    /\ UNCHANGED <<input, state, inflight>>

\* the value a structural validator returns
structuralValue(r) == Return([isValid |-> r.isValid, data |-> r.data, error |-> r.error])

\* the value validateContent returns
contentValue(r) == Return([isValid |-> r.isValid, data |-> r.data, error |-> r.error])

\* the value validateOutput returns
outputValue(r) == Return([isValid |-> r.isValid, error |-> r.error])

\* the outcome of a call that throws or returns
outcomeOf(r) == [kind |-> r.kind, value |-> r.value]

\* validation.ts
ValValidateJSON ==
    /\ pc = "start" /\ input.kind = "json"
    /\ \E r \in {VAL_validateJSON(input.text, nextId)} :
            Finish("VAL_validateJSON", structuralValue(r), r.logs, <<>>, r.used)

ValValidateContent ==
    /\ pc = "start" /\ input.kind = "json"
    /\ \E r \in {VAL_validateContentText(input.text, nextId)} :
            Finish("VAL_validateContent", contentValue(r), r.logs, <<>>, r.used)

ValValidateAndTransform ==
    /\ pc = "start" /\ input.kind = "json"
    /\ \E r \in {VAL_validateAndTransform(input.text, nextId)} :
            Finish("VAL_validateAndTransform", outcomeOf(r), r.logs, r.reports, r.used)

ValValidateOutput ==
    /\ pc = "start" /\ input.kind = "json"
    /\ \E r \in {VAL_validateOutput(input.text, nextId)} :
            Finish("VAL_validateOutput", outputValue(r), r.logs, <<>>, r.used)

\* google-search.ts
GsValidateJSON ==
    /\ pc = "start" /\ input.kind = "json"
    /\ \E r \in {GS_validateJSON(input.text, nextId)} :
            Finish("GS_validateJSON", structuralValue(r), r.logs, <<>>, r.used)

GsValidateAndTransform ==
    /\ pc = "start" /\ input.kind = "json"
    /\ \E r \in {GS_validateAndTransform(input.text, nextId)} :
            Finish("GS_validateAndTransform", outcomeOf(r), r.logs, r.reports, r.used)

\* jsonValidator.ts
JvValidateStructure ==
    /\ pc = "start" /\ input.kind = "json"
    /\ \E r \in {JV_validateStructure(input.text, nextId)} :
            Finish("JV_validateStructure", structuralValue(r), r.logs, <<>>, r.used)

JvValidateAndTransform ==
    /\ pc = "start" /\ input.kind = "json"
    /\ \E r \in {JV_validateAndTransform(input.text, nextId)} :
            Finish("JV_validateAndTransform", outcomeOf(r), r.logs, r.reports, r.used)

\* part_001
P1ValidateJSON ==
    /\ pc = "start" /\ input.kind = "json"
    /\ \E r \in {P1_validateJSON(input.text)} :
            Finish("P1_validateJSON", structuralValue(r), r.logs, <<>>, r.used)

P1ValidateContent ==
    /\ pc = "start" /\ input.kind = "json"
    /\ \E r \in {P1_validateContent(input.text, nextId)} :
            Finish("P1_validateContent", outcomeOf(r), r.logs, r.reports, r.used)

\* validation/index.ts
ViValidateJSON ==
    /\ pc = "start" /\ input.kind = "json"
    /\ \E r \in {VI_validateJSON(input.text, nextId)} :
            Finish("VI_validateJSON", structuralValue(r), r.logs, <<>>, r.used)

ViValidateOutput ==
    /\ pc = "start" /\ input.kind = "json"
    /\ \E r \in {VI_validateOutput(input.text, nextId)} :
            Finish("VI_validateOutput", outputValue(r), r.logs, <<>>, r.used)

\* validation/validator.ts
VvValidateJSON ==
    /\ pc = "start" /\ input.kind = "json"
    /\ \E r \in {VV_validateJSON(input.text, nextId)} :
            Finish("VV_validateJSON", structuralValue(r), r.logs, <<>>, r.used)

VvValidateAndTransform ==
    /\ pc = "start" /\ input.kind = "json"
    /\ \E r \in {VV_validateAndTransform(input.text, nextId)} :
            Finish("VV_validateAndTransform", outcomeOf(r), r.logs, r.reports, r.used)

NextValidator ==
    \/ ValValidateJSON
    \/ ValValidateContent
    \/ ValValidateAndTransform
    \/ ValValidateOutput
    \/ GsValidateJSON
    \/ GsValidateAndTransform
    \/ JvValidateStructure
    \/ JvValidateAndTransform
    \/ P1ValidateJSON
    \/ P1ValidateContent
    \/ ViValidateJSON
    \/ ViValidateOutput
    \/ VvValidateJSON
    \/ VvValidateAndTransform

SpecValidator == InitValidator /\ [][NextValidator]_vars

(***************************************************************************)
(* Inputs of the business rules of validation/validator.ts and of the      *)
(* hashtag rule of instagramContent.ts.  A record input carries the parsed *)
(* object and records how it was built: broken names the rules its parts   *)
(* were built to violate, caseDuplicate tells that two of its tags differ  *)
(* in letter case only.  A tag input records the categories whose keywords *)
(* it was built from; a tag list records the category each tag was built   *)
(* for; a hashtag list records the categories it was given a keyword of.   *)
(***************************************************************************)
stringValue(s) == [t |-> "str", v |-> s]

recordValue(title, description, tags) ==
    [t |-> "obj",
     v |-> [k \in {"title", "description", "tags"} |->
                IF k = "title" THEN stringValue(title)
                ELSE IF k = "description" THEN stringValue(description)
                ELSE stringValue(tags)]]

padded(s, n) == s \o repeat("!", n - Len(s))

RuleTitles ==
    {[text |-> "Special Custom Mug", broken |-> {}],
     [text |-> "SPECIAL MUG", broken |-> {}],
     [text |-> "Custom Mug Gift", broken |-> {"emotionalWords"}],
     [text |-> "Cherished Keepsake", broken |-> {"requiredWords"}],
     [text |-> "Best Special Mug", broken |-> {"bannedWords"}],
     [text |-> "Special {Mug}", broken |-> {"braces"}]}
    \cup {[text |-> padded("Special", n),
           broken |-> IF n < VV_titleMin \/ n > VV_titleMax THEN {"titleLength"} ELSE {}] :
            n \in around(VV_titleMin) \cup around(VV_titleMax)}

\* a description naming a use, a gifting value, a feeling and a call to action
describe(use, gift, feeling, cta) ==
    "Designed for mom, this special mug is perfect for " \o use
        \o ". Customize your name, celebrate with " \o feeling \o ": " \o gift
        \o " to cherish. " \o cta

FullDescription == describe("morning coffee", "a perfect gift", "love", "Order now")

RuleDescriptions ==
    {[text |-> padded(FullDescription, n),
      broken |-> IF n < VV_descriptionMin \/ n > VV_descriptionMax
                 THEN {"descriptionLength"} ELSE {}] :
        n \in around(VV_descriptionMin) \cup around(VV_descriptionMax)}
    \cup
    {[text |-> padded(describe("every kitchen", "a perfect gift", "love", "Order now"),
                      VV_descriptionMin),
      broken |-> {"requiredElements"}],
     [text |-> padded(describe("morning coffee", "a keepsake", "love", "Order now"),
                      VV_descriptionMin),
      broken |-> {"requiredElements"}],
     [text |-> padded(describe("morning coffee", "a perfect gift", "joy", "Order now"),
                      VV_descriptionMin),
      broken |-> {"requiredPhrases"}],
     [text |-> padded(describe("morning coffee", "a perfect gift", "love", "Order soon"),
                      VV_descriptionMin),
      broken |-> {"requiredPhrases"}],
     [text |-> padded(FullDescription \o "{}", VV_descriptionMin), broken |-> {"braces"}]}

\* one tag per required category, in the order of the categories, and two of none
CoveringTags ==
    <<"mug", "modern", "holiday", "custom", "special", "mom", "gift idea", "maternal",
      "ceramic", "kitchen">>

extraTags(n) == [i \in 1..n |-> "extra" \o numberToString(i)]

\* n tags covering every category
tagsOfCount(n) ==
    IF n <= Len(CoveringTags) THEN SubSeq(CoveringTags, 1, n)
    ELSE CoveringTags \o extraTags(n - Len(CoveringTags))

RuleTags ==
    {[list |-> tagsOfCount(n),
      broken |-> IF n < VV_tagsMin \/ n > VV_tagsMax THEN {"tagCount"} ELSE {},
      caseDuplicate |-> FALSE] : n \in around(VV_tagsMin) \cup around(VV_tagsMax)}
    \cup
    {[list |-> Append(CoveringTags, repeat("z", n)),
      broken |-> IF n < VV_tagMinLength \/ n > VV_tagMaxLength THEN {"tagLength"} ELSE {},
      caseDuplicate |-> FALSE] : n \in around(VV_tagMinLength) \cup around(VV_tagMaxLength)}
    \cup
    {[list |-> Append(CoveringTags, "Mug"), broken |-> {}, caseDuplicate |-> TRUE],
     [list |-> Append(CoveringTags, "mug"), broken |-> {"uniqueness"},
      caseDuplicate |-> FALSE],
     [list |-> Append(CoveringTags, "blue and white ceramic"), broken |-> {"tagWords"},
      caseDuplicate |-> FALSE],
     [list |-> Append(CoveringTags, "the"), broken |-> {"stopWord"},
      caseDuplicate |-> FALSE],
     [list |-> Append(CoveringTags, "perfect present"), broken |-> {"promotionalWord"},
      caseDuplicate |-> FALSE],
     [list |-> Append(CoveringTags, "mom's day"), broken |-> {"tagCharacters"},
      caseDuplicate |-> FALSE],
     [list |-> Append(CoveringTags, "red  ceramic"), broken |-> {"doubleSpace"},
      caseDuplicate |-> FALSE]}

GoodRuleTitle == [text |-> "Special Custom Mug", broken |-> {}]

GoodRuleDescription == [text |-> padded(FullDescription, VV_descriptionMin), broken |-> {}]

GoodRuleTags == [list |-> CoveringTags, broken |-> {}, caseDuplicate |-> FALSE]

\* the covering tags with the only tag of one required category replaced
UncoveredTags ==
    {[list |-> [CoveringTags EXCEPT ![i] = "keepsake"], broken |-> {"requiredCategories"},
      caseDuplicate |-> FALSE, missing |-> requiredCategories[i]] :
        i \in 1..Len(requiredCategories)}

RecordInput(t, d, g) ==
    [kind |-> "record", data |-> recordValue(t.text, d.text, join(g.list, ", ")),
     title |-> t.text, description |-> d.text, tagList |-> g.list,
     broken |-> t.broken \cup d.broken \cup g.broken, caseDuplicate |-> g.caseDuplicate,
     missing |-> IF "missing" \in DOMAIN g THEN {g.missing} ELSE {}]

RecordInputs ==
    {RecordInput(t, GoodRuleDescription, GoodRuleTags) : t \in RuleTitles}
    \cup {RecordInput(GoodRuleTitle, d, GoodRuleTags) : d \in RuleDescriptions}
    \cup {RecordInput(GoodRuleTitle, GoodRuleDescription, g) : g \in RuleTags \cup UncoveredTags}
    \cup {RecordInput(t, d, g) :
            t \in {x \in RuleTitles : x.text \in {"Custom Mug Gift", "Best Special Mug"}},
            d \in {x \in RuleDescriptions : x.broken = {"requiredElements"}},
            g \in {x \in RuleTags : x.caseDuplicate \/ x.broken \in {{"stopWord"}, {"uniqueness"}}}}

\* the rules VALIDATION_RULES declares, by the names the inputs use
DeclaredRules ==
    {"titleLength", "descriptionLength", "braces", "requiredWords", "emotionalWords",
     "bannedWords", "requiredElements", "requiredPhrases", "tagCount", "tagLength",
     "uniqueness", "tagWords", "requiredCategories"}

\* the checks of isValidTag that VALIDATION_RULES does not declare
UndeclaredRules == {"stopWord", "promotionalWord", "tagCharacters", "doubleSpace"}

\* a keyword of each category's pattern that holds no keyword of another
Keyword ==
    [product_type |-> "mug", design_style |-> "modern", occasion |-> "holiday",
     personalization |-> "custom", emotion |-> "special", target_audience |-> "family",
     gifting |-> "gift idea", mothers_day |-> "maternal"]

RequiredCategorySet == {requiredCategories[i] : i \in 1..Len(requiredCategories)}

\* the position of a category in the fixed order
orderOf(category) ==
    CHOOSE i \in 1..Len(requiredCategories) : requiredCategories[i] = category

\* the first, in the fixed order, of a set of categories; "other" for none
firstCategory(categories) ==
    IF categories = {} THEN "other"
    ELSE requiredCategories[MinOf({orderOf(c) : c \in categories})]

TagInputs ==
    {[kind |-> "tag", tag |-> "ceramic", categories |-> {}],
     [kind |-> "tag", tag |-> "Custom MUG", categories |-> {"personalization", "product_type"}]}
    \cup {[kind |-> "tag", tag |-> Keyword[c], categories |-> {c}] : c \in RequiredCategorySet}
    \cup {[kind |-> "tag", tag |-> Keyword[a] \o " " \o Keyword[b], categories |-> {a, b}] :
            a \in RequiredCategorySet, b \in RequiredCategorySet}

\* one keyword tag per category of a set, in the fixed order
keywordTags(categories) ==
    LET kept == SelectSeq(requiredCategories, LAMBDA c : c \in categories)
    IN  [i \in 1..Len(kept) |-> Keyword[kept[i]]]

TagListInputs ==
    {[kind |-> "tags", tags |-> keywordTags(RequiredCategorySet \ gone) \o <<"ceramic">>,
      classes |-> (RequiredCategorySet \ gone) \cup {"other"}] :
        gone \in {{}} \cup {{c} : c \in RequiredCategorySet}}
    \cup
    {[kind |-> "tags",
      tags |-> keywordTags(RequiredCategorySet \ {p[1], p[2]})
                   \o <<Keyword[p[2]] \o " " \o Keyword[p[1]]>>,
      classes |-> (RequiredCategorySet \ {p[1], p[2]}) \cup {firstCategory({p[1], p[2]})}] :
        p \in {q \in RequiredCategorySet \X RequiredCategorySet : q[1] # q[2]}}

IG_categorySet == {IG_categoryOrder[i] : i \in 1..Len(IG_categoryOrder)}

\* a hashtag of each category of instagramContent.ts
Hashtag == [easter |-> "#spring", product |-> "#giftidea", personalization |-> "custom",
            style |-> "#Handmade"]

hashtagsOf(categories) ==
    LET kept == SelectSeq(IG_categoryOrder, LAMBDA c : c \in categories)
    IN  [i \in 1..Len(kept) |-> Hashtag[kept[i]]]

HashtagInputs ==
    {[kind |-> "hashtags", tags |-> hashtagsOf(cs) \o extraTags(n - Cardinality(cs)),
      covered |-> cs, classes |-> cs] :
        cs \in {IG_categorySet} \cup {IG_categorySet \ {c} : c \in IG_categorySet},
        n \in around(IG_min)}
    \cup
    {[kind |-> "hashtags",
      tags |-> hashtagsOf(IG_categorySet \ {"product", "personalization"})
                   \o <<"#customgift">> \o extraTags(n - 3),
      covered |-> IG_categorySet, classes |-> IG_categorySet \ {"personalization"}] :
        n \in around(IG_min) \cup around(IG_max)}
    \cup
    {[kind |-> "hashtags",
      tags |-> hashtagsOf(IG_categorySet) \o extraTags(IG_min - 4) \o <<Hashtag["easter"]>>,
      covered |-> IG_categorySet, classes |-> IG_categorySet]}
    \cup
    {[kind |-> "hashtags",
      tags |-> hashtagsOf(IG_categorySet \ {c}) \o extraTags(IG_max - 3) \o <<Hashtag[c]>>,
      covered |-> IG_categorySet, classes |-> IG_categorySet] : c \in IG_categorySet}

(***************************************************************************)
(* The business rules as a state machine: one call per behaviour           *)
(***************************************************************************)
InitRules ==
    /\ input \in RecordInputs \cup TagInputs \cup TagListInputs \cup HashtagInputs
    /\ pc = "start"
    /\ result = NoResult
    /\ logs = <<>>
    /\ reports = <<>>
    /\ nextId = 1
    /\ state = NoState
    /\ inflight = <<>>

\* Validator.validateContent(content) of validation/validator.ts
VvValidateContent ==
    /\ pc = "start" /\ input.kind = "record"
    /\ \E r \in {VV_validateContent(input.data, nextId)} :
            Finish("VV_validateContent", contentValue(r), r.logs, <<>>, r.used)

CategorizeTag ==
    /\ pc = "start" /\ input.kind = "tag"
    /\ \E r \in {categorizeTag(input.tag)} :
            Finish("categorizeTag", Return(r), <<>>, <<>>, 0)

HasRequiredTagCategories ==
    /\ pc = "start" /\ input.kind = "tags"
    /\ \E r \in {hasRequiredTagCategories(input.tags)} :
            Finish("hasRequiredTagCategories", Return(r), <<>>, <<>>, 0)

ValidateHashtags ==
    /\ pc = "start" /\ input.kind = "hashtags"
    /\ \E r \in {validateHashtags(input.tags)} :
            Finish("validateHashtags", r, <<>>, <<>>, 0)

NextRules ==
    \/ VvValidateContent
    \/ CategorizeTag
    \/ HasRequiredTagCategories
    \/ ValidateHashtags

SpecRules == InitRules /\ [][NextRules]_vars

(***************************************************************************)
(* Errors as data: toJSON and createErrorReport.  An object literal is the *)
(* sequence of its properties in the order written; JSON.stringify leaves  *)
(* out the properties whose value is undefined.  Date.now() is "now".      *)
(***************************************************************************)
property(key, value) == [key |-> key, defined |-> TRUE, value |-> value]

undefinedProperty(key) == [key |-> key, defined |-> FALSE, value |-> ""]

stringify(object) == SelectSeq(object, LAMBDA p : p.defined)

\* a thrown value that is no Error
NonError(value) ==
    [name |-> "value", code |-> "", message |-> value, requestId |-> 0,
     context |-> EmptyContext]

instanceofError(error) == error.name # "value"

\* ContentError.toJSON() of validation/index.ts and of part_001
VI_toJSON(error) ==
    <<property("error_code", error.code), property("message", error.message),
      property("request_id", error.requestId), property("timestamp", "now"),
      property("details", error.context)>>

\* ContentGenerationError.toJSON() of contentError.ts
CE_toJSON(error) ==
    <<property("error_code", error.code), property("message", error.message),
      property("request_id", error.requestId), property("timestamp", "now"),
      property("context", [validationErrors |-> error.context.validationErrors,
                           missingFields |-> error.context.missingFields])>>

\* createErrorReport(error) of validation.ts, jsonValidator.ts, google-search.ts
VAL_createErrorReport(error, u) ==
    IF error.name = "ContentError"
    THEN stringify(<<property("error_code", error.code),
                     property("message", error.message),
                     property("request_id", error.requestId),
                     property("timestamp", "now"),
                     property("details", error.context)>>)
    ELSE stringify(<<property("error_code", "INVALID_JSON"),
                     property("message", IF instanceofError(error) THEN error.message
                                         ELSE "Invalid JSON structure"),
                     property("request_id", u),
                     property("timestamp", "now")>>)

\* createErrorReport(error) of contentError.ts; used tells whether uuidv4 ran
CE_createErrorReport(error, u) ==
    IF error.name = "ContentGenerationError"
    THEN [text |-> stringify(CE_toJSON(error)), used |-> 0]
    ELSE [text |-> stringify(<<property("error_code", "CONTENT_ERROR"),
                              property("message", IF instanceofError(error)
                                                  THEN error.message
                                                  ELSE "Unknown error"),
                              property("request_id", u),
                              property("timestamp", "now")>>),
          used |-> 1]

(***************************************************************************)
(* handleContentError(error): the three variants.  Each returns what it    *)
(* throws (value), whether that is the instance it was given (same), and   *)
(* the log entries, reports and uuidv4 values of a newly built error.      *)
(***************************************************************************)
\* the contextData { originalError: error }
WithOriginal(error) ==
    [missingFields |-> <<>>, validationErrors |-> <<>>, attemptedModel |-> "",
     originalError |-> error]

rethrown(error) ==
    [kind |-> "throw", value |-> error, same |-> TRUE, logs |-> <<>>, reports |-> <<>>,
     used |-> 0]

wrapped(built) ==
    [kind |-> "throw", value |-> built.error, same |-> FALSE, logs |-> built.logs,
     reports |-> built.reports, used |-> built.used]

\* new ContentError(message, code, contextData) of part_001: no diagnostic report
P1_ContentError(message, code, contextData, u) ==
    [error |-> [name |-> "ContentError", code |-> code, message |-> message,
                requestId |-> u, context |-> contextData],
     logs |-> <<LogEntry("error", "ContentError", message, u)>>,
     reports |-> <<>>,
     used |-> 1]

\* the message and code lines 287-325 of validation/index.ts choose
handledAs(error) ==
    IF ~instanceofError(error)
    THEN [message |-> "An unknown error occurred", code |-> "UNKNOWN_ERROR"]
    ELSE IF includes(error.message, "JSON")
    THEN [message |-> "Invalid JSON structure detected", code |-> "INVALID_JSON"]
    ELSE IF includes(error.message, "missing") \/ includes(error.message, "required")
    THEN [message |-> "Missing required fields in the generated content",
          code |-> "MISSING_INPUT"]
    ELSE IF includes(error.message, "image")
    THEN [message |-> "Failed to process image", code |-> "IMAGE_ERROR"]
    ELSE IF includes(error.message, "model")
    THEN [message |-> "Unauthorized model change attempt detected", code |-> "MODEL_ERROR"]
    ELSE [message |-> error.message, code |-> "UNKNOWN_ERROR"]

\* handleContentError(error) of validation/index.ts
VI_handleContentError(error, u) ==
    IF error.name = "ContentError" THEN rethrown(error)
    ELSE wrapped(ContentError(handledAs(error).message, handledAs(error).code,
                              WithOriginal(error), u))

\* handleContentError(error) of part_001
P1_handleContentError(error, u) ==
    IF error.name = "ContentError" THEN rethrown(error)
    ELSE wrapped(P1_ContentError(handledAs(error).message, handledAs(error).code,
                                 WithOriginal(error), u))

\* handleContentError(error) of contentError.ts: no contextData is passed
CE_handleContentError(error, u) ==
    IF error.name = "ContentGenerationError" THEN rethrown(error)
    ELSE IF ~instanceofError(error)
    THEN wrapped(ContentGenerationError(
                    "Content generation failed. Please check the input and retry.",
                    "CONTENT_ERROR", EmptyContext, u))
    ELSE IF includes(error.message, "JSON")
    THEN wrapped(ContentGenerationError(
                    "Content generation failed. Please check the input for completeness and accuracy.",
                    "INVALID_JSON", EmptyContext, u))
    ELSE IF includes(error.message, "missing") \/ includes(error.message, "required")
    THEN wrapped(ContentGenerationError(
                    "Missing required input data for content generation. Please provide all necessary details and retry.",
                    "MISSING_INPUT", EmptyContext, u))
    ELSE IF includes(error.message, "optimization")
    THEN wrapped(ContentGenerationError(
                    "Warning: Unauthorized optimization attempt detected.",
                    "OPTIMIZATION_ERROR", EmptyContext, u))
    ELSE wrapped(ContentGenerationError(error.message, "CONTENT_ERROR", EmptyContext, u))

(***************************************************************************)
(* validateModel(model): the variants.  Each returns or throws.            *)
(***************************************************************************)
Accepted == [kind |-> "return", value |-> "undefined", logs |-> <<>>, reports |-> <<>>,
             used |-> 0]

\* validation.ts 178-186 and google-search.ts 293-301
VAL_validateModel(model, u) ==
    IF model # "gpt-4o"
    THEN thrown(ContentError("Unauthorized model change attempt detected", "MODEL_ERROR",
                             [EmptyContext EXCEPT !.attemptedModel = model], u), <<>>, 0)
    ELSE Accepted

\* validation/index.ts 187-191
VI_validateModel(model) ==
    IF model # "gpt-4o"
    THEN [kind |-> "throw", value |-> PlainError("Unauthorized model change attempt detected"),
          logs |-> <<>>, reports |-> <<>>, used |-> 0]
    ELSE Accepted

\* validation/validator.ts 113-119: ModelSchema is z.object({ name: z.literal('gpt-4o') })
VV_validateModel(model) ==
    IF model # "gpt-4o"
    THEN [kind |-> "throw", value |-> PlainError("Unauthorized model change attempt detected"),
          logs |-> <<>>, reports |-> <<>>, used |-> 0]
    ELSE Accepted

\* part_001 119-127
P1_validateModel(model, u) ==
    IF model # "gpt-4o"
    THEN thrown(ContentGenerationError(
                    "Warning: Unauthorized attempt to modify model or content structure.",
                    "OPTIMIZATION_ERROR",
                    [EmptyContext EXCEPT !.attemptedModel = model], u), <<>>, 0)
    ELSE Accepted

(***************************************************************************)
(* Inputs of the error handling: errors built earlier (their log entries   *)
(* and reports are in the stores when the behaviour starts), untyped       *)
(* errors, thrown values that are no errors, model names and error codes   *)
(***************************************************************************)
\* ErrorCodes of validation/index.ts
VI_ErrorCodes ==
    {"INVALID_JSON", "MISSING_INPUT", "IMAGE_ERROR", "CONTENT_ERROR", "MODEL_ERROR",
     "VALIDATION_ERROR", "API_ERROR", "UNKNOWN_ERROR"}

\* ErrorCodes of contentError.ts
CE_ErrorCodes ==
    {"CONTENT_ERROR", "VALIDATION_ERROR", "MISSING_INPUT", "INVALID_JSON", "API_ERROR",
     "IMAGE_ERROR", "OPTIMIZATION_ERROR"}

ErrorMessages ==
    {"Unexpected token in JSON", "Title is required", "a field is missing",
     "cannot read image", "model not allowed", "optimization failed",
     "Title must include required keywords", "Tags must be unique", "boom"}

ErrorInputs ==
    {[kind |-> "error", class |-> "ContentError", typed |-> TRUE,
      built |-> ContentError("Content could not be generated", c, EmptyContext, 1)] :
        c \in VI_ErrorCodes}
    \cup {[kind |-> "error", class |-> "ContentGenerationError", typed |-> TRUE,
           built |-> ContentGenerationError("Content could not be generated", c,
                        [EmptyContext EXCEPT !.missingFields = <<"productFocus">>], 1)] :
            c \in CE_ErrorCodes}
    \cup {[kind |-> "error", class |-> "Error", typed |-> FALSE,
           built |-> [error |-> PlainError(m), logs |-> <<>>, reports |-> <<>>,
                      used |-> 0]] : m \in ErrorMessages}
    \cup {[kind |-> "error", class |-> "value", typed |-> FALSE,
           built |-> [error |-> NonError(v), logs |-> <<>>, reports |-> <<>>,
                      used |-> 0]] : v \in {"timeout", ""}}

ModelInputs ==
    {[kind |-> "model", model |-> m,
      built |-> [logs |-> <<>>, reports |-> <<>>, used |-> 0]] :
        m \in {"gpt-4o", "gpt-4", "GPT-4o", "gpt-4o ", "gpt-4o-mini", ""}}

CodeInputs ==
    {[kind |-> "code", code |-> c,
      built |-> [logs |-> <<>>, reports |-> <<>>, used |-> 0]] : c \in VI_ErrorCodes}

\* the records of the business rules, as the JSON text of a model answer
AnswerOfRecordInputs ==
    {[kind |-> "record", record |-> r,
      text |-> objectText(r.title, r.description, join(r.tagList, ", ")),
      built |-> [logs |-> <<>>, reports |-> <<>>, used |-> 0]] : r \in RecordInputs}

(***************************************************************************)
(* The error handling as a state machine: one call per behaviour           *)
(***************************************************************************)
InitErrors ==
    /\ input \in ErrorInputs \cup ModelInputs \cup CodeInputs \cup AnswerOfRecordInputs
    /\ pc = "start"
    /\ result = NoResult
    /\ logs = input.built.logs
    /\ reports = input.built.reports
    /\ nextId = 1 + input.built.used
    /\ state = NoState
    /\ inflight = <<>>

\* error.toJSON() of a ContentError
ViToJSON ==
    /\ pc = "start" /\ input.kind = "error" /\ input.class = "ContentError"
    /\ Finish("VI_toJSON", Return(stringify(VI_toJSON(input.built.error))), <<>>, <<>>, 0)

\* error.toJSON() of a ContentGenerationError
CeToJSON ==
    /\ pc = "start" /\ input.kind = "error" /\ input.class = "ContentGenerationError"
    /\ Finish("CE_toJSON", Return(stringify(CE_toJSON(input.built.error))), <<>>, <<>>, 0)

\* Validator.createErrorReport(error) of validation.ts
ValCreateErrorReport ==
    /\ pc = "start" /\ input.kind = "error"
    /\ Finish("VAL_createErrorReport",
              Return(VAL_createErrorReport(input.built.error, nextId)), <<>>, <<>>, 1)

\* createErrorReport(error) of contentError.ts
CeCreateErrorReport ==
    /\ pc = "start" /\ input.kind = "error"
    /\ \E r \in {CE_createErrorReport(input.built.error, nextId)} :
            Finish("CE_createErrorReport", Return(r.text), <<>>, <<>>, r.used)

\* what handleContentError threw, and whether it is the instance it was given
handled(r) == [kind |-> r.kind, value |-> r.value, same |-> r.same]

ViHandleContentError ==
    /\ pc = "start" /\ input.kind = "error"
    /\ \E r \in {VI_handleContentError(input.built.error, nextId)} :
            Finish("VI_handleContentError", handled(r), r.logs, r.reports, r.used)

P1HandleContentError ==
    /\ pc = "start" /\ input.kind = "error"
    /\ \E r \in {P1_handleContentError(input.built.error, nextId)} :
            Finish("P1_handleContentError", handled(r), r.logs, r.reports, r.used)

CeHandleContentError ==
    /\ pc = "start" /\ input.kind = "error"
    /\ \E r \in {CE_handleContentError(input.built.error, nextId)} :
            Finish("CE_handleContentError", handled(r), r.logs, r.reports, r.used)

ValValidateModel ==
    /\ pc = "start" /\ input.kind = "model"
    /\ \E r \in {VAL_validateModel(input.model, nextId)} :
            Finish("VAL_validateModel", outcomeOf(r), r.logs, r.reports, r.used)

ViValidateModel ==
    /\ pc = "start" /\ input.kind = "model"
    /\ \E r \in {VI_validateModel(input.model)} :
            Finish("VI_validateModel", outcomeOf(r), r.logs, r.reports, r.used)

VvValidateModel ==
    /\ pc = "start" /\ input.kind = "model"
    /\ \E r \in {VV_validateModel(input.model)} :
            Finish("VV_validateModel", outcomeOf(r), r.logs, r.reports, r.used)

P1ValidateModel ==
    /\ pc = "start" /\ input.kind = "model"
    /\ \E r \in {P1_validateModel(input.model, nextId)} :
            Finish("P1_validateModel", outcomeOf(r), r.logs, r.reports, r.used)

\* diagnosticSystem.createReport({ code, message, context })
CreateReport ==
    /\ pc = "start" /\ input.kind = "code"
    /\ \E r \in {createReport(input.code, "Content could not be generated", nextId)} :
            Finish("createReport", Return(r.report), r.logs, <<r.report>>, 1)

\* new ContentError(message, code) of validation/index.ts
NewContentError ==
    /\ pc = "start" /\ input.kind = "code"
    /\ \E r \in {ContentError("Content could not be generated", input.code,
                              EmptyContext, nextId)} :
            Finish("ContentError", Return(r.error), r.logs, r.reports, r.used)

\* try { Validator.validateAndTransform(text) } catch (error) { handleContentError(error) }
\* with the Validator of validation/validator.ts and the handler of validation/index.ts
VvValidateAndTransformHandled ==
    /\ pc = "start" /\ input.kind = "record"
    /\ \E r \in {VV_validateAndTransform(input.text, nextId)} :
        IF r.kind = "throw"
        THEN \E h \in {VI_handleContentError(r.value, nextId + r.used)} :
                Finish("VV_validateAndTransformHandled",
                       [kind |-> "throw", value |-> h.value, same |-> h.same,
                        caught |-> r.value],
                       r.logs \o h.logs, r.reports \o h.reports, r.used + h.used)
        ELSE Finish("VV_validateAndTransformHandled", outcomeOf(r), r.logs, r.reports,
                    r.used)

NextErrors ==
    \/ VvValidateAndTransformHandled
    \/ ViToJSON
    \/ CeToJSON
    \/ ValCreateErrorReport
    \/ CeCreateErrorReport
    \/ ViHandleContentError
    \/ P1HandleContentError
    \/ CeHandleContentError
    \/ ValValidateModel
    \/ ViValidateModel
    \/ VvValidateModel
    \/ P1ValidateModel
    \/ CreateReport
    \/ NewContentError

SpecErrors == InitErrors /\ [][NextErrors]_vars

(***************************************************************************)
(* SocialMediaSection of part_003.  The component's state is the record of *)
(* useState; a handler runs without interruption up to its next await, and *)
(* inflight holds the handler calls suspended at an await, each resumed    *)
(* when the promise it awaits settles.  A null image or preview is the     *)
(* empty string.  The props of the section are the input.                  *)
(***************************************************************************)
NoFile == ""

Files == {"a.png", "b.png"}

ProductDescriptions == {"", " ", "A mug for mom"}

ProductFocuses == {"", " ", "mug"}

MaxInFlight == 2

SectionInputs ==
    {[kind |-> "section", platform |-> p, productFocus |-> f] :
        p \in Platforms, f \in ProductFocuses}

\* useState<SocialMediaSectionState>({...})
InitialSectionState ==
    [image |-> NoFile, productDescription |-> "", description |-> "", hashtags |-> "",
     pinterestTitle |-> "", isProcessing |-> FALSE, processedPreview |-> NoFile,
     hasGenerated |-> FALSE, contentTone |-> "casual"]

\* a handler call suspended at its await number step
Suspended(call, step, file, productDescription, description, hashtags) ==
    [call |-> call, step |-> step, file |-> file,
     productDescription |-> productDescription, description |-> description,
     hashtags |-> hashtags]

RemoveAt(seq, i) == SubSeq(seq, 1, i - 1) \o SubSeq(seq, i + 1, Len(seq))

validateInputs(s, props) ==
    /\ s.image # NoFile
    /\ trim(s.productDescription) # ""
    /\ props.productFocus # ""

isGenerateDisabled(s, props) ==
    \/ s.image = NoFile
    \/ trim(s.productDescription) = ""
    \/ props.productFocus = ""
    \/ s.isProcessing

\* what the awaited generateSocialContent calls of a section settle with
SectionContent ==
    [p \in Platforms |->
        [f \in ProductFocuses |->
            [d \in ProductDescriptions |->
                [r \in {"answered", "rejected"} |->
                    generateSocialContent([productFocus |-> f, productDescription |-> d],
                                          [kind |-> r, description |-> PlainBody], p)]]]]

InitSection ==
    /\ input \in SectionInputs
    /\ pc = "mounted"
    /\ result = NoResult
    /\ logs = <<>>
    /\ reports = <<>>
    /\ nextId = 1
    /\ state = InitialSectionState
    /\ inflight = <<>>

\* handleImageChange(file), up to its await of resizeImage
HandleImageChange ==
    /\ pc = "mounted"
    /\ \E file \in Files \cup {NoFile} :
        IF file = NoFile
        THEN /\ state' = [state EXCEPT !.image = file, !.processedPreview = NoFile,
                                       !.hasGenerated = FALSE]
             /\ UNCHANGED inflight
        ELSE /\ Len(inflight) < MaxInFlight
             /\ state' = [state EXCEPT !.image = file, !.processedPreview = NoFile,
                                       !.hasGenerated = FALSE, !.isProcessing = TRUE]
             /\ inflight' = Append(inflight,
                                   Suspended("handleImageChange", 1, file, "", "", ""))
    /\ UNCHANGED <<input, pc, result, logs, reports, nextId>>

\* handleImageChange after resizeImage settled
HandleImageChangeResumes ==
    /\ pc = "mounted"
    /\ \E i \in 1..Len(inflight) :
        /\ inflight[i].call = "handleImageChange"
        /\ \E settled \in {"resolved", "rejected"} :
            state' = IF settled = "resolved"
                     THEN [state EXCEPT !.processedPreview = "blob:" \o inflight[i].file,
                                        !.isProcessing = FALSE]
                     ELSE [state EXCEPT !.isProcessing = FALSE]
        /\ inflight' = RemoveAt(inflight, i)
    /\ UNCHANGED <<input, pc, result, logs, reports, nextId>>

\* the onChange of the product description's textarea
ChangeProductDescription ==
    /\ pc = "mounted"
    /\ \E text \in ProductDescriptions :
        state' = [state EXCEPT !.productDescription = text, !.hasGenerated = FALSE]
    /\ UNCHANGED <<input, pc, result, logs, reports, nextId, inflight>>

\* a click on the generate button, enabled unless isGenerateDisabled:
\* generateAllContent(), up to its first await
GenerateAllContent ==
    /\ pc = "mounted"
    /\ ~isGenerateDisabled(state, input)
    /\ validateInputs(state, input)
    /\ Len(inflight) < MaxInFlight
    /\ state' = [state EXCEPT !.isProcessing = TRUE]
    /\ inflight' = Append(inflight,
                          Suspended("generateAllContent", 1, state.image,
                                    state.productDescription, "", ""))
    /\ UNCHANGED <<input, pc, result, logs, reports, nextId>>

\* the state generateAllContent sets after its last await
generated(s, call, hashtags) ==
    [s EXCEPT !.description = call.description, !.hashtags = hashtags,
              !.pinterestTitle = "", !.isProcessing = FALSE, !.hasGenerated = TRUE]

\* generateAllContent after one of its generateSocialContent calls settled
GenerateAllContentResumes ==
    /\ pc = "mounted"
    /\ \E i \in 1..Len(inflight) :
        /\ inflight[i].call = "generateAllContent"
        /\ \E response \in {"answered", "rejected"} :
            \E r \in {SectionContent[input.platform][input.productFocus]
                                    [inflight[i].productDescription][response]} :
                IF r.kind = "throw"
                THEN /\ state' = [state EXCEPT !.isProcessing = FALSE]
                     /\ inflight' = RemoveAt(inflight, i)
                ELSE IF inflight[i].step = 1
                THEN /\ inflight' = [inflight EXCEPT ![i].step = 2,
                                        ![i].description = r.value.description]
                     /\ UNCHANGED state
                ELSE IF inflight[i].step = 2 /\ input.platform = "Pinterest"
                THEN /\ inflight' = [inflight EXCEPT ![i].step = 3,
                                        ![i].hashtags = r.value.hashtags]
                     /\ UNCHANGED state
                ELSE /\ state' = generated(state, inflight[i],
                                           IF inflight[i].step = 2
                                           THEN r.value.hashtags
                                           ELSE inflight[i].hashtags)
                     /\ inflight' = RemoveAt(inflight, i)
    /\ UNCHANGED <<input, pc, result, logs, reports, nextId>>

\* a click on the download button, rendered for an image and enabled unless
\* isProcessing: downloadImage(), up to its await of resizeImage
DownloadImage ==
    /\ pc = "mounted"
    /\ state.image # NoFile
    /\ ~state.isProcessing
    /\ Len(inflight) < MaxInFlight
    /\ state' = [state EXCEPT !.isProcessing = TRUE]
    /\ inflight' = Append(inflight, Suspended("downloadImage", 1, state.image, "", "", ""))
    /\ UNCHANGED <<input, pc, result, logs, reports, nextId>>

\* downloadImage after resizeImage settled: its finally block
DownloadImageResumes ==
    /\ pc = "mounted"
    /\ \E i \in 1..Len(inflight) :
        /\ inflight[i].call = "downloadImage"
        /\ state' = [state EXCEPT !.isProcessing = FALSE]
        /\ inflight' = RemoveAt(inflight, i)
    /\ UNCHANGED <<input, pc, result, logs, reports, nextId>>

NextSection ==
    \/ HandleImageChange
    \/ HandleImageChangeResumes
    \/ ChangeProductDescription
    \/ GenerateAllContent
    \/ GenerateAllContentResumes
    \/ DownloadImage
    \/ DownloadImageResumes

SpecSection == InitSection /\ [][NextSection]_vars

(***************************************************************************)
(* The relay endpoints of netlify/functions/openai.ts: the Netlify handler *)
(* and the Express proxy of /api/openai.  A request records the model name *)
(* its body was built with, "none" for a body without one.  A call runs to *)
(* its fetch of the provider, where the result tells what was sent, and    *)
(* resumes when the fetch settles.                                         *)
(***************************************************************************)
RelayModels == {"gpt-4o", "gpt-4", "gpt-4o-mini", "GPT-4O", " gpt-4o", "gpt-4o ", ""}

chatBody(model) == "{\"model\":\"" \o model \o "\",\"messages\":[]}"

\* bodies without a model name: no JSON, no object, no model, no string
OddBodies ==
    {"", "not json", "null", "{}", "{\"model\":4}", "{\"model\":[\"gpt-4o\"]}",
     "[\"gpt-4o\"]", "\"gpt-4o\""}

\* the bodies express.json() hands to a route: objects and arrays
ParsedBodies == {b \in OddBodies : JSONparse(b).ok /\ JSONparse(b).val.t \in {"obj", "arr"}}

RelayInputs ==
    {[kind |-> "event", httpMethod |-> m, apiKey |-> k, body |-> chatBody(n),
      built |-> [model |-> n]] :
        m \in {"OPTIONS", "POST", "GET"}, k \in {"", "sk-key"}, n \in RelayModels}
    \cup {[kind |-> "event", httpMethod |-> m, apiKey |-> k, body |-> b,
           built |-> [model |-> "none"]] :
            m \in {"OPTIONS", "POST", "GET"}, k \in {"", "sk-key"}, b \in OddBodies}
    \cup {[kind |-> "req", httpMethod |-> "POST", apiKey |-> "sk-key",
           body |-> chatBody(n), built |-> [model |-> n]] : n \in RelayModels}
    \cup {[kind |-> "req", httpMethod |-> "POST", apiKey |-> "sk-key", body |-> b,
           built |-> [model |-> "none"]] : b \in ParsedBodies}

\* what the fetch of the provider settles with
ProviderOutcomes ==
    {[settled |-> "resolved", ok |-> TRUE, status |-> 200],
     [settled |-> "resolved", ok |-> FALSE, status |-> 401],
     [settled |-> "resolved", ok |-> FALSE, status |-> 429],
     [settled |-> "rejected", ok |-> FALSE, status |-> 0]}

\* a reply of an endpoint; contacted tells whether it called fetch
Reply(statusCode, error, contacted) ==
    [kind |-> "reply", statusCode |-> statusCode, error |-> error, contacted |-> contacted]

\* an endpoint suspended at its fetch, sent the body it forwards
Fetching(sent) == [kind |-> "fetching", statusCode |-> 0, error |-> sent, contacted |-> TRUE]

\* requestBody.model !== 'gpt-4o'
modelIsNot(requestBody, name) ==
    ~(requestBody.t = "obj" /\ hasKey(requestBody, "model")
        /\ requestBody.v["model"].t = "str" /\ requestBody.v["model"].v = name)

\* handler(event) of the Netlify function, to its return or to its fetch
handler(event) ==
    IF event.httpMethod = "OPTIONS" THEN Reply(200, "", FALSE)
    ELSE IF event.apiKey = "" THEN Reply(500, "OpenAI API key is missing", FALSE)
    ELSE Strict(JSONparse(IF event.body = "" THEN "{}" ELSE event.body), LAMBDA parsed :
            IF ~parsed.ok THEN Reply(400, "Invalid request body", FALSE)
            ELSE IF parsed.val.t = "null"
            THEN Reply(500, "Cannot read properties of null", FALSE)
            ELSE IF modelIsNot(parsed.val, "gpt-4o")
            THEN Reply(400, "Invalid model specified", FALSE)
            ELSE Fetching(event.body))

\* handler(event) after its fetch settled
handlerResumed(outcome) ==
    IF outcome.settled = "rejected" THEN Reply(500, "fetch failed", TRUE)
    ELSE IF ~outcome.ok THEN Reply(outcome.status, "provider error", TRUE)
    ELSE Reply(200, "", TRUE)

\* app.post('/api/openai') of the Express proxy, to its fetch
proxy(req) == Fetching(req.body)

\* app.post('/api/openai') after its fetch settled
proxyResumed(outcome) ==
    IF outcome.settled = "rejected" THEN Reply(500, "Internal server error", TRUE)
    ELSE IF ~outcome.ok THEN Reply(outcome.status, "provider error", TRUE)
    ELSE Reply(200, "", TRUE)

InitRelay ==
    /\ input \in RelayInputs
    /\ pc = "start"
    /\ result = NoResult
    /\ logs = <<>>
    /\ reports = <<>>
    /\ nextId = 1
    /\ state = NoState
    /\ inflight = <<>>

NetlifyHandler ==
    /\ pc = "start" /\ input.kind = "event"
    /\ \E r \in {handler(input)} :
        /\ result' = r
        /\ pc' = IF r.kind = "fetching" THEN "handler:fetch" ELSE "handler"
    /\ UNCHANGED <<input, logs, reports, nextId, state, inflight>>

NetlifyHandlerResumes ==
    /\ pc = "handler:fetch"
    /\ \E outcome \in ProviderOutcomes : result' = handlerResumed(outcome)
    /\ pc' = "handler"
    /\ UNCHANGED <<input, logs, reports, nextId, state, inflight>>

ExpressProxy ==
    /\ pc = "start" /\ input.kind = "req"
    /\ result' = proxy(input)
    /\ pc' = "proxy:fetch"
    /\ UNCHANGED <<input, logs, reports, nextId, state, inflight>>

ExpressProxyResumes ==
    /\ pc = "proxy:fetch"
    /\ \E outcome \in ProviderOutcomes : result' = proxyResumed(outcome)
    /\ pc' = "proxy"
    /\ UNCHANGED <<input, logs, reports, nextId, state, inflight>>

NextRelay ==
    \/ NetlifyHandler
    \/ NetlifyHandlerResumes
    \/ ExpressProxy
    \/ ExpressProxyResumes

SpecRelay == InitRelay /\ [][NextRelay]_vars

(***************************************************************************)
(* The Logger of logger.ts on its own: logs holds its entries, the state   *)
(* its debugMode flag.  The result of getRecentLogs records the count it   *)
(* was called with, 10 when called without one; the other methods return   *)
(* nothing.                                                                *)
(***************************************************************************)
MaxLogs == 3

MaxCount == 4

LOG_defaultCount == 10

LoggerMessages == {"first", "second"}

\* array.slice(start): a negative start counts from the end, and -0 is 0
slice(array, start) ==
    LET from == IF start < 0
                THEN IF Len(array) + start > 0 THEN Len(array) + start ELSE 0
                ELSE IF start < Len(array) THEN start ELSE Len(array)
    IN  SubSeq(array, from + 1, Len(array))

\* Logger.addEntry(level, context, message, requestId, data)
addEntry(entries, level, context, message) ==
    Append(entries, LogEntry(level, context, message, ""))

\* Logger.debug(context, message)
debug(entries, debugMode, context, message) ==
    IF debugMode THEN addEntry(entries, "debug", context, message) ELSE entries

\* Logger.getRecentLogs(count)
getRecentLogs(entries, count) == slice(entries, 0 - count)

InitLogger ==
    /\ input = [kind |-> "logger"]
    /\ pc = "start"
    /\ result = NoResult
    /\ logs = <<>>
    /\ reports = <<>>
    /\ nextId = 1
    /\ state = [debugMode |-> FALSE]
    /\ inflight = <<>>

EnableDebug ==
    /\ Len(logs) < MaxLogs
    /\ pc' = "enableDebug"
    /\ state' = [debugMode |-> TRUE]
    /\ logs' = debug(logs, TRUE, "Logger", "Debug mode enabled")
    /\ result' = NoResult
    /\ UNCHANGED <<input, reports, nextId, inflight>>

DisableDebug ==
    /\ Len(logs) < MaxLogs
    /\ pc' = "disableDebug"
    /\ logs' = debug(logs, state.debugMode, "Logger", "Debug mode disabled")
    /\ state' = [debugMode |-> FALSE]
    /\ result' = NoResult
    /\ UNCHANGED <<input, reports, nextId, inflight>>

LoggerDebug ==
    /\ Len(logs) < MaxLogs
    /\ pc' = "debug"
    /\ \E message \in LoggerMessages :
        logs' = debug(logs, state.debugMode, "Validator", message)
    /\ result' = NoResult
    /\ UNCHANGED <<input, reports, nextId, state, inflight>>

\* Logger.info, Logger.warn and Logger.error
LoggerRecord ==
    /\ Len(logs) < MaxLogs
    /\ \E level \in {"info", "warn", "error"}, message \in LoggerMessages :
        /\ pc' = level
        /\ logs' = addEntry(logs, level, "Validator", message)
    /\ result' = NoResult
    /\ UNCHANGED <<input, reports, nextId, state, inflight>>

GetRecentLogs ==
    /\ input.kind = "logger"
    /\ pc' = "getRecentLogs"
    /\ \E count \in 0..MaxCount \cup {LOG_defaultCount} :
        result' = [kind |-> "return", value |-> getRecentLogs(logs, count),
                   count |-> count]
    /\ UNCHANGED <<input, logs, reports, nextId, state, inflight>>

ClearLogs ==
    /\ input.kind = "logger"
    /\ pc' = "clearLogs"
    /\ logs' = <<>>
    /\ result' = NoResult
    /\ UNCHANGED <<input, reports, nextId, state, inflight>>

NextLogger ==
    \/ EnableDebug
    \/ DisableDebug
    \/ LoggerDebug
    \/ LoggerRecord
    \/ GetRecentLogs
    \/ ClearLogs

SpecLogger == InitLogger /\ [][NextLogger]_vars

(***************************************************************************)
(* C1 (stated as claimed; the code violates it).  Every description that   *)
(* leaves a normalizer respects its target's maximum length: at most 1000  *)
(* characters from the socialContent pipeline, at most 150 from            *)
(* validateDescription and from validateInstagramContent.                  *)
(***************************************************************************)
C1_DescriptionWithinMaximum ==
    /\ pc = "generateSocialContent" /\ result.kind = "return"
        => Len(result.value.description) <= SC_MAX_DESCRIPTION_LENGTH
    /\ pc = "validateDescription" /\ result.kind = "return"
        => Len(result.value) <= IG_maxLength
    /\ pc = "validateInstagramContent" /\ result.kind = "return"
        => Len(result.value.description) <= P0_maxDescriptionLength

(***************************************************************************)
(* C3 (stated as claimed; the code violates it).  When a valid JSON object *)
(* with non-blank title and description is followed by text that contains  *)
(* '{' or '}', validateContent returns the record of that first object,    *)
(* not null.                                                               *)
(***************************************************************************)
C3_FirstObjectExtracted ==
    pc = "validateContent" /\ input.prefix = ""
        /\ (includes(input.suffix, "{") \/ includes(input.suffix, "}"))
        /\ ~SC_validateContent(input.body, input.platform).isNull
    => result.value = SC_validateContent(input.body, input.platform)
C4_MissingKeysYieldMissingInput ==
    pc = "VAL_validateAndTransform" /\ input.shape = "incomplete"
    => /\ result.kind = "throw"
       /\ result.value.code = "MISSING_INPUT"
       /\ {result.value.context.missingFields[i] :
              i \in 1..Len(result.value.context.missingFields)} = input.absent

(***************************************************************************)
(* C5 (stated as claimed; the code violates it).  In validateAndTransform  *)
(* (validation.ts, google-search.ts, jsonValidator.ts) and validateContent *)
(* (part_001) the error code is INVALID_JSON exactly when the input is not *)
(* parseable as a JSON object, and a parseable object with the three keys  *)
(* that is rejected is rejected with VALIDATION_ERROR.                     *)
(***************************************************************************)
C5_FirstFailingStageDecides ==
    pc \in {"VAL_validateAndTransform", "GS_validateAndTransform",
            "JV_validateAndTransform", "P1_validateContent"}
    => /\ (result.kind = "throw" /\ result.value.code = "INVALID_JSON")
            <=> (input.shape \in {"nonobject", "unparseable"} \/ ~input.clean)
       /\ input.shape = "complete" /\ input.clean /\ result.kind = "throw"
            => result.value.code = "VALIDATION_ERROR"

(***************************************************************************)
(* C6 (stated as claimed; the code violates it).  When the fields in       *)
(* input.broken violate a length or count bound at once, the failure that  *)
(* validateContent (validation.ts) and validateOutput (validation/index.ts)*)
(* return names every one of those fields.                                 *)
(***************************************************************************)
C6_EveryViolationNamed ==
    pc \in {"VAL_validateContent", "VI_validateOutput"}
        /\ input.shape = "complete" /\ input.clean /\ input.broken # {}
    => /\ ~result.value.isValid
       /\ \A f \in input.broken : includes(toLowerCase(result.value.error), f)

(***************************************************************************)
(* C7 (stated as claimed; the code violates it).  validateJSON and         *)
(* validateContent return and never throw; validateAndTransform throws     *)
(* only ContentError, of code INVALID_JSON when the input does not parse   *)
(* or parses to an array, a primitive or null, of code VALIDATION_ERROR    *)
(* otherwise.                                                              *)
(***************************************************************************)
C7_OnlyTypedErrors ==
    /\ pc \in {"VAL_validateJSON", "VAL_validateContent", "VV_validateJSON",
               "GS_validateJSON"}
        => result.kind = "return"
    /\ pc \in {"VAL_validateAndTransform", "VV_validateAndTransform",
               "GS_validateAndTransform"}
        /\ result.kind = "throw"
        => /\ result.value.name = "ContentError"
           /\ result.value.code =
                IF input.shape \in {"nonobject", "unparseable"} \/ ~input.clean
                THEN "INVALID_JSON" ELSE "VALIDATION_ERROR"

(***************************************************************************)
(* C8 (stated as claimed; the code violates it).  A record that violates   *)
(* no rule, but holds two tags differing in letter case only, fails        *)
(* Validator.validateContent of validation/validator.ts with the           *)
(* uniqueness violation named in its error.                                *)
(***************************************************************************)
C8_CaseDuplicatesRejected ==
    pc = "VV_validateContent" /\ input.caseDuplicate /\ input.broken = {}
    => /\ ~result.value.isValid
       /\ includes(result.value.error, "Tags must be unique")

C10_FirstMatchAndKeywordCoverage ==
    /\ pc = "categorizeTag" => result.value = firstCategory(input.categories)
    /\ pc = "hasRequiredTagCategories"
        => (result.value <=> RequiredCategorySet \subseteq input.classes)
    /\ pc = "validateHashtags" /\ Len(input.tags) >= IG_min
        => (result.kind = "return" <=> input.covered = IG_categorySet)

\* C10, witness: a tag matching the patterns of two categories has been given
\* the first of them
C10_TwoPatternsFirstWins ==
    /\ pc = "categorizeTag"
    /\ input.categories = {"personalization", "product_type"}
    /\ result.value = "product_type"

\* C10 as claimed: in both files a tag set passes exactly when every category
\* has a tag classified into it, a tag being classified into one category
C10_OneCategoryPerTag ==
    /\ pc = "categorizeTag" => result.value = firstCategory(input.categories)
    /\ pc = "hasRequiredTagCategories"
        => (result.value <=> RequiredCategorySet \subseteq input.classes)
    /\ pc = "validateHashtags" /\ Len(input.tags) >= IG_min
        => (result.kind = "return" <=> input.classes = IG_categorySet)

(***************************************************************************)
(* C11 (stated as claimed; the code violates it).  When the only tag of a  *)
(* required category is removed from a tag set that covered every          *)
(* category, validation fails and the violation it reports names that      *)
(* category and no category that is still covered: in the error of         *)
(* Validator.validateContent of validation/validator.ts and in the message *)
(* of the error validateHashtags throws.                                   *)
(***************************************************************************)
CategoryLabel ==
    [product_type |-> "product type", design_style |-> "design style",
     occasion |-> "occasion", personalization |-> "personalization", emotion |-> "emotion",
     target_audience |-> "target audience", gifting |-> "gifting",
     mothers_day |-> "mother's day"]

C11_MissingCategoryNamed ==
    /\ pc = "VV_validateContent" /\ input.missing # {}
        => /\ ~result.value.isValid
           /\ \A c \in RequiredCategorySet :
                includes(toLowerCase(result.value.error), CategoryLabel[c])
                    <=> c \in input.missing
    /\ pc = "validateHashtags" /\ Len(input.tags) >= IG_min /\ input.covered # IG_categorySet
        => /\ result.kind = "throw"
           /\ \A c \in IG_categorySet :
                includes(result.value.message, c) <=> c \notin input.covered

(***************************************************************************)
(* C12 (stated as claimed; the code violates it).  Every schema and output *)
(* validator treats tags given as a comma-separated string like the        *)
(* sequence of its trimmed, non-empty pieces: a record whose title and     *)
(* description are valid is accepted exactly when the number of its tags   *)
(* lies within the validator's bounds, whichever way the tags are given.   *)
(***************************************************************************)
C12_StringAndSequenceAlike ==
    /\ pc \in {"VAL_validateContent", "VAL_validateOutput", "JV_validateStructure"}
        /\ input.shape = "complete" /\ input.clean /\ input.varied = {}
        /\ input.tagsForm \in {"string", "array"}
        => (result.value.isValid <=> input.tagsCount \in VAL_tagsMin..VAL_tagsMax)
    /\ pc = "VI_validateOutput"
        /\ input.shape = "complete" /\ input.clean /\ input.varied = {}
        /\ input.tagsForm \in {"string", "array"}
        => (result.value.isValid <=> input.tagsCount \in VI_tagsMin..VI_tagsMax)

(***************************************************************************)
(* C13 (stated as claimed; the code violates it).  A schema validator      *)
(* accepts a record only if the number of its tags that are not blank lies *)
(* within the validator's bounds: blank pieces of a comma-separated string *)
(* are not counted.                                                        *)
(***************************************************************************)
C13_BlankElementsNotCounted ==
    /\ pc \in {"VAL_validateContent", "JV_validateStructure"}
        /\ input.shape = "complete" /\ input.clean
        /\ input.tagsForm \in {"string", "array"} /\ result.value.isValid
        => input.tagsCount \in VAL_tagsMin..VAL_tagsMax
    /\ pc = "P1_validateContent"
        /\ input.shape = "complete" /\ input.clean
        /\ input.tagsForm \in {"string", "array"} /\ result.kind = "return"
        => input.tagsCount \in P1_MIN_TAGS..P1_MAX_TAGS

(***************************************************************************)
(* C14 (stated as claimed; the code violates it).  A record whose title or *)
(* description holds a brace, every other field being valid, is rejected   *)
(* by the schema and output validators of validation.ts and                *)
(* validation/index.ts with a failure that cites the JSON-syntax guard,    *)
(* and validateAndTransform throws it as VALIDATION_ERROR.                 *)
(***************************************************************************)
C14_BracesRejected ==
    input.body \in {CompleteInput(BracedTitle, GoodDescription, GoodTags).body,
                    CompleteInput(GoodTitle, BracedDescription, GoodTags).body}
    => /\ pc \in {"VAL_validateContent", "VAL_validateOutput", "VI_validateOutput"}
            => /\ ~result.value.isValid
               /\ includes(result.value.error, "cannot contain JSON syntax")
       /\ pc \in {"VAL_validateAndTransform", "GS_validateAndTransform"}
            => /\ result.kind = "throw"
               /\ result.value.code = "VALIDATION_ERROR"
               /\ includes(result.value.message, "cannot contain JSON syntax")

(***************************************************************************)
(* C15 (stated as claimed; the code violates it).  Normalization is        *)
(* idempotent: validateDescription returns a description it returned       *)
(* unchanged, and formatContent, given the description and hashtags it     *)
(* returned for a validated record, returns them unchanged.                *)
(***************************************************************************)
C15_NormalizationIdempotent ==
    /\ pc = "validateDescriptionAgain"
        => result.kind = "return" /\ result.value = result.first
    /\ pc = "formatContentAgain" /\ ~SC_validateContent(input.text, input.platform).isNull
        => result.value = result.first

TagsOfRecord(tagList, platform) ==
    IF tagList = <<>> THEN mapTrim(split(DEFAULT_CONTENT[platform].tags, ","))
    ELSE tagList

\* each tag with one leading '#', in order, one space between them
Hashed(tagList) ==
    join([i \in 1..Len(tagList) |->
            IF charAt(tagList[i], 1) = "#" THEN tagList[i] ELSE "#" \o tagList[i]], " ")

(***************************************************************************)
(* C17 (stated as claimed; the code violates it).  On Instagram, Facebook   *)
(* and Pinterest alike, for a model answer that validateContent accepts,    *)
(* the hashtags of the content generateSocialContent returns are the tags   *)
(* of the validated record, trimmed, without empty ones, each with a        *)
(* leading '#', joined by single spaces in their order.                     *)
(***************************************************************************)
C17_HashtagsOnEveryPlatform ==
    pc = "generateSocialContent" /\ input.built
        /\ result.kind = "return" /\ result.call.response = "answered"
        /\ ~SC_validateContent(input.text, input.platform).isNull
    => result.value.hashtags = Hashed(TagsOfRecord(input.tagList, input.platform))

(***************************************************************************)
(* C18.  Called with a non-blank product focus and product description for  *)
(* one of the three platforms, generateSocialContent does not reject; when  *)
(* the model call rejects or resolves without a description, or the model   *)
(* text has no JSON object, cannot be parsed, or lacks a non-blank title or *)
(* a description, it resolves with exactly the description and the tags of  *)
(* DEFAULT_CONTENT[platform].                                               *)
(***************************************************************************)
C18_FailuresResolveWithDefault ==
    pc = "generateSocialContent"
        /\ trim(result.call.productFocus) # "" /\ trim(result.call.productDescription) # ""
    => /\ result.kind = "return"
       /\ result.call.response # "answered" \/ input.lacking
            => /\ result.value.description = DEFAULT_CONTENT[input.platform].description
               /\ result.value.hashtags = DEFAULT_CONTENT[input.platform].tags

\* the model call rejected and generateSocialContent resolved with the default
C18_RejectedCallResolved ==
    /\ pc = "generateSocialContent" /\ result.call.response = "rejected"
    /\ result.kind = "return"
    /\ result.value.hashtags = DEFAULT_CONTENT[input.platform].tags

\* no element of the sequence occurs at two positions
NoDuplicates(tags) ==
    \A i \in 1..Len(tags) : \A j \in 1..Len(tags) : tags[i] = tags[j] => i = j

\* the tags of a text that separates them by commas or blanks
TagsIn(text) == filterBoolean(splitRuns(text, {",", " "}))

(***************************************************************************)
(* C19 (stated as claimed; the code violates it).  Whatever the input tag   *)
(* list, no tag occurs twice among the tags a normalizer returns: the       *)
(* array of validateHashtags, the tags of validateInstagramContent, the     *)
(* hashtags of formatContent and the keywords of                            *)
(* analyzeImageAndGenerateContent.                                          *)
(***************************************************************************)
C19_NoDuplicateTags ==
    /\ pc = "validateHashtags" /\ result.kind = "return"
        => NoDuplicates(result.value)
    /\ pc = "validateInstagramContent" /\ result.kind = "return"
        => NoDuplicates(TagsIn(result.value.tags))
    /\ pc = "generateSocialContent" /\ result.kind = "return"
        => NoDuplicates(TagsIn(result.value.hashtags))
    /\ pc = "analyzeImageAndGenerateContent" /\ result.kind = "return"
        => NoDuplicates(result.value.keywords)

(***************************************************************************)
(* C20 (stated as claimed; the code violates it).  When validateAndTransform *)
(* throws a ContentError, a diagnostic report has been created for it, and  *)
(* the request_id of every report and the requestId of every error log      *)
(* entry of the call equal the requestId of the error, so that the report   *)
(* is found under the error's requestId.                                    *)
(***************************************************************************)
C20_OneCorrelationId ==
    pc \in {"VAL_validateAndTransform", "VV_validateAndTransform",
            "GS_validateAndTransform", "JV_validateAndTransform"}
        /\ result.kind = "throw" /\ result.value.name = "ContentError"
    => /\ \E i \in 1..Len(reports) : reports[i].request_id = result.value.requestId
       /\ \A i \in 1..Len(reports) : reports[i].request_id = result.value.requestId
       /\ \A i \in 1..Len(logs) :
            logs[i].level = "error" => logs[i].requestId = result.value.requestId

\* the keys of a serialized object, in the order they are written
KeysOf(object) == [i \in 1..Len(object) |-> object[i].key]

(***************************************************************************)
(* C21 (stated as claimed; the code violates it).  An error serialized by   *)
(* ContentError.toJSON, by ContentGenerationError.toJSON or by              *)
(* createErrorReport, typed or not, has exactly the keys error_code,        *)
(* message, request_id, timestamp and context, in that order.               *)
(***************************************************************************)
C21_FiveKeysInOrder ==
    pc \in {"VI_toJSON", "CE_toJSON", "VAL_createErrorReport", "CE_createErrorReport"}
    => KeysOf(result.value)
        = <<"error_code", "message", "request_id", "timestamp", "context">>

(***************************************************************************)
(* C22 (stated as claimed; the code violates it).  A validator call retains *)
(* no state: when validateJSON, validateStructure, validateContent,         *)
(* validateOutput or validateAndTransform has returned or thrown, the       *)
(* entries of the logger and the reports of the diagnostic system are those *)
(* from before the call, which are none.                                    *)
(***************************************************************************)
C22_NoStateRetained ==
    pc # "start" => logs = <<>> /\ reports = <<>>

\* the class of typed error a variant of handleContentError rethrows
OwnClass ==
    [VI_handleContentError |-> "ContentError", P1_handleContentError |-> "ContentError",
     CE_handleContentError |-> "ContentGenerationError"]

(***************************************************************************)
(* C23 (stated as claimed; the code violates it).  handleContentError,      *)
(* given an untyped error or a value that is no error, throws a typed error *)
(* whose context.originalError is the value it was given; given a typed     *)
(* error of its own class, it throws that instance and adds no log entry    *)
(* and no diagnostic report.                                                *)
(***************************************************************************)
C23_OriginalErrorKept ==
    pc \in DOMAIN OwnClass
    => /\ ~input.typed
            => /\ result.kind = "throw" /\ ~result.same
               /\ "originalError" \in DOMAIN result.value.context
               /\ result.value.context.originalError = input.built.error
       /\ input.class = OwnClass[pc]
            => /\ result.kind = "throw" /\ result.same
               /\ result.value = input.built.error
               /\ logs = input.built.logs /\ reports = input.built.reports

(***************************************************************************)
(* C24 (stated as claimed; the code violates it).  Whatever the message of  *)
(* a schema violation says, when Validator.validateAndTransform of          *)
(* validation/validator.ts throws for a record that violates a rule and     *)
(* the error is passed through handleContentError, the typed error that     *)
(* surfaces has the code VALIDATION_ERROR.                                  *)
(***************************************************************************)
C24_ViolationsAreValidationErrors ==
    pc = "VV_validateAndTransformHandled" /\ input.record.broken # {}
    => /\ result.kind = "throw"
       /\ result.value.code = "VALIDATION_ERROR"

(***************************************************************************)
(* C25 (stated as claimed; the code violates it).  In every variant,        *)
(* validateModel returns for the model name 'gpt-4o' and for every other    *)
(* name throws a typed error whose code is MODEL_ERROR.                     *)
(***************************************************************************)
C25_OnlyGpt4oElseModelError ==
    pc \in {"VAL_validateModel", "VI_validateModel", "VV_validateModel", "P1_validateModel"}
    => IF input.model = "gpt-4o" THEN result.kind = "return"
       ELSE /\ result.kind = "throw"
            /\ result.value.name \in {"ContentError", "ContentGenerationError"}
            /\ result.value.code = "MODEL_ERROR"

\* the diagnostic section the taxonomy's code calls for, if any
SectionOfCode ==
    [MISSING_INPUT |-> "missing_fields", INVALID_JSON |-> "validation_errors",
     IMAGE_ERROR |-> "image_processing", MODEL_ERROR |-> "model_info",
     CONTENT_ERROR |-> "content_analysis"]

(***************************************************************************)
(* C29 (stated as claimed; the code violates it).  The report createReport  *)
(* stores for an error code carries that code's diagnostic section:         *)
(* missing_fields for MISSING_INPUT, validation_errors for INVALID_JSON,    *)
(* image_processing for IMAGE_ERROR, model_info for MODEL_ERROR and         *)
(* content_analysis for CONTENT_ERROR, whether createReport is called       *)
(* directly or by the constructor of ContentError.                          *)
(***************************************************************************)
C29_SectionForEveryCode ==
    pc \in {"createReport", "ContentError"} /\ input.code \in DOMAIN SectionOfCode
    => /\ Len(reports) = 1
       /\ reports[1].error_code = input.code
       /\ SectionOfCode[input.code] \in reports[1].diagnostic_info

(***************************************************************************)
(* C26 (stated as claimed; the code violates it).  A hashtag list that      *)
(* validateHashtags returns has between 10 and 15 entries and holds, for    *)
(* each of the categories easter, product, personalization and style, a    *)
(* tag containing one of the category's keywords, also when the list was    *)
(* cut to its first 15 entries.                                             *)
(***************************************************************************)
C26_ReturnedListCoversCategories ==
    pc = "validateHashtags" /\ result.kind = "return"
    => /\ Len(result.value) >= IG_min /\ Len(result.value) <= IG_max
       /\ \A c \in IG_categorySet :
            \E i \in 1..Len(result.value) :
                \E word \in IG_categories[c] : includes(toLowerCase(result.value[i]), word)


\* the generateAllContent calls in flight
Generations == {i \in 1..Len(inflight) : inflight[i].call = "generateAllContent"}

(***************************************************************************)
(* C27 (stated as claimed; the code violates it).  In a SocialMediaSection *)
(* isProcessing is true whenever a generateAllContent call is in flight,   *)
(* and at most one generateAllContent call is in flight at any time.       *)
(***************************************************************************)
C27_OneGenerationInFlight ==
    pc = "mounted" =>
        /\ Generations # {} => state.isProcessing
        /\ Cardinality(Generations) <= 1

(***************************************************************************)
(* C28 (stated as claimed; the code violates it).  A relay endpoint calls  *)
(* the provider only for a request whose model is exactly 'gpt-4o'; for    *)
(* every other request, of the Netlify handler and of the Express proxy    *)
(* alike, it replies with an error and has not called the provider.        *)
(***************************************************************************)
C28_OnlyGpt4oForwarded ==
    /\ pc \in {"handler:fetch", "proxy:fetch", "handler", "proxy"} /\ result.contacted
       => input.built.model = "gpt-4o"
    /\ pc \in {"handler", "proxy"} /\ input.built.model # "gpt-4o"
            /\ input.httpMethod # "OPTIONS"
       => ~result.contacted /\ result.statusCode >= 400

\* the last n entries of the logger, oldest first
LastEntries(n) == SubSeq(logs, Len(logs) - n + 1, Len(logs))

(***************************************************************************)
(* C30 (stated as claimed; the code violates it).  getRecentLogs(n)        *)
(* returns the last min(n, total) entries of the logger in insertion       *)
(* order, for every n >= 0, none for n = 0; after clearLogs the logger     *)
(* holds no entry, so that getRecentLogs returns none until the next one.  *)
(***************************************************************************)
C30_LastEntriesReturned ==
    /\ pc = "getRecentLogs"
       => result.value = LastEntries(IF result.count < Len(logs)
                                     THEN result.count ELSE Len(logs))
    /\ pc = "clearLogs" => logs = <<>>

====
